---- MODULE Spec2Model ----
(***************************************************************************)
(* A model of 3dObjLib: the vertex pool (Vertex.c), primitives             *)
(* (Primitive.c), groups (Group.c), vector arithmetic (Vector.c, Coord.h)  *)
(* and the coplanar polygon clipper (Clip.c).                              *)
(*                                                                         *)
(* Coord is a C double.  It is modelled as an exact rational <<n, d>> with *)
(* d > 0 and gcd(n, d) = 1, so that +, -, *, / and the comparisons are     *)
(* computed exactly; rounding of the floating-point unit is not modelled.  *)
(* A vector Coord[3] is a 3-tuple of rationals, dimension dim being        *)
(* element dim + 1.  C arrays are sequences: element n of the C array is   *)
(* element n + 1 of the sequence.                                          *)
(***************************************************************************)
EXTENDS Integers, Sequences, FiniteSets, TLC

VARIABLES
  varray,        \* the VertexArray
  groups,        \* the array of Group, groups[g + 1] is group g
  group_order,   \* the plot order handed to clip_polygons
  pc,            \* position of the running call
  bg,            \* clip_polygons: index into group_order of the back group
  back,          \* clip_group: index of the back primitive
  fg,            \* clip_group: index into group_order of the front group
  front,         \* clip_group_vs_group: index of the front primitive
  plane,         \* clip_group_vs_group: the plane of the back primitive
  nsplit,        \* clip_group: splits counted by this clip_group call
  ndel,          \* clip_group: deletions counted by this clip_group call
  del,           \* clip_group: the back primitive was deleted
  split,         \* clip_group_vs_group: the last primitive_clip split
  result,        \* return value of the finished call
  ndebug,        \* the build defines NDEBUG: assert() does nothing
  hist           \* observations about the run (not program state)

vars == <<varray, groups, group_order, pc, bg, back, fg, front, plane,
          nsplit, ndel, del, split, result, ndebug, hist>>

-----------------------------------------------------------------------------
(* Coord.h: the scalar type *)

Abs(n) == IF n < 0 THEN -n ELSE n

RECURSIVE Gcd(_, _)
Gcd(a, b) == IF b = 0 THEN a ELSE Gcd(b, a % b)

\* the rational n/d in lowest terms with a positive denominator
Q(n, d) ==
  LET s == IF d < 0 THEN -1 ELSE 1
      g == Gcd(Abs(n), Abs(d))
  IN  <<(s * n) \div g, (s * d) \div g>>

Zero == <<0, 1>>
One == <<1, 1>>

\* Common factors are cancelled before multiplying, which keeps the integers
\* of the computation small.
CAdd(a, b) ==
  LET g == Gcd(a[2], b[2])
  IN  Q(a[1] * (b[2] \div g) + b[1] * (a[2] \div g), (a[2] \div g) * b[2])
CSub(a, b) == CAdd(a, <<-b[1], b[2]>>)
CMul(a, b) ==
  LET g == IF a[1] = 0 THEN b[2] ELSE Gcd(Abs(a[1]), b[2])
      h == IF b[1] = 0 THEN a[2] ELSE Gcd(Abs(b[1]), a[2])
  IN  Q((a[1] \div g) * (b[1] \div h), (a[2] \div h) * (b[2] \div g))
CDiv(a, b) == CMul(a, <<IF b[1] < 0 THEN -b[2] ELSE b[2], Abs(b[1])>>)
CLt(a, b) ==
  LET g == Gcd(a[2], b[2])
  IN  a[1] * (b[2] \div g) < b[1] * (a[2] \div g)
CGt(a, b) == CLt(b, a)

\* #define MAX_FLT_ERR (0.001)
MAX_FLT_ERR == <<1, 1000>>

coord_abs(a) == <<Abs(a[1]), a[2]>>

\* sqrt, for the squares of rationals
coord_sqrt(a) ==
  LET n == CHOOSE r \in 0..a[1] : r * r = a[1]
      d == CHOOSE r \in 1..a[2] : r * r = a[2]
  IN  <<n, d>>

coord_equal(a, b) == CLt(coord_abs(CSub(a, b)), MAX_FLT_ERR)

coord_less_than(a, b) == ~CLt(CSub(b, a), MAX_FLT_ERR)

LOWEST(a, b) == IF CLt(a, b) THEN a ELSE b

HIGHEST(a, b) == IF CGt(a, b) THEN a ELSE b

-----------------------------------------------------------------------------
(* Vector.c *)

Dims == 0..2

vector_x(a, p) == a[p.x + 1]
vector_y(a, p) == a[p.y + 1]
vector_z(a, p) == a[p.z + 1]

vector_sub(min, sub) == [n \in 1..3 |-> CSub(min[n], sub[n])]

vector_cross(a, b) ==
  [n \in 1..3 |-> CSub(CMul(a[(n % 3) + 1], b[((n + 1) % 3) + 1]),
                       CMul(a[((n + 1) % 3) + 1], b[(n % 3) + 1]))]

\* The magnitude sqrt(a0^2 + a1^2 + a2^2).  A vector along one axis has the
\* magnitude |a_n|, which is what the square root then is.
vector_mag(a) ==
  LET nz == {n \in 1..3 : a[n] # Zero}
  IN  IF nz = {} THEN Zero
      ELSE IF Cardinality(nz) = 1 THEN coord_abs(a[CHOOSE n \in nz : TRUE])
      ELSE coord_sqrt(CAdd(CAdd(CMul(a[1], a[1]), CMul(a[2], a[2])),
                           CMul(a[3], a[3])))

\* [has_norm, unit]; unit is left alone (here: reported as a) without a norm
vector_norm(a) ==
  LET mag == vector_mag(a)
  IN  IF mag # Zero
      THEN [has_norm |-> TRUE, unit |-> [n \in 1..3 |-> CDiv(a[n], mag)]]
      ELSE [has_norm |-> FALSE, unit |-> a]

vector_dot(a, b) ==
  CAdd(CAdd(CMul(a[1], b[1]), CMul(a[2], b[2])), CMul(a[3], b[3]))

vector_equal(a, b) == \A n \in 1..3 : coord_equal(a[n], b[n])

vector_xy_less_than(a, b, p) ==
  /\ coord_less_than(vector_x(a, p), vector_x(b, p))
  /\ coord_less_than(vector_y(a, p), vector_y(b, p))

vector_xy_greater_or_equal(a, b, p) ==
  /\ ~coord_less_than(vector_x(a, p), vector_x(b, p))
  /\ ~coord_less_than(vector_y(a, p), vector_y(b, p))

vector_y_gradient(a, b, p) ==
  CDiv(CSub(vector_y(b, p), vector_y(a, p)),
       CSub(vector_x(b, p), vector_x(a, p)))

vector_y_intercept(a, m, p) == CSub(vector_y(a, p), CMul(m, vector_x(a, p)))

\* the vector with x, y, z of plane p set to ix, iy, iz
PlaneVector(p, ix, iy, iz) ==
  [n \in 1..3 |-> IF n = p.x + 1 THEN ix ELSE IF n = p.y + 1 THEN iy ELSE iz]

NoPoint == <<Zero, Zero, Zero>>

\* The point where the lines AB and CD meet, from the gradients of AB (m1, and
\* m4 in the plane of x and z) and of CD (m2, and m3 in the plane of x and z).
IntersectionPoint(va, vc, p, p2, ab_vert, ab_horz, cd_vert, m1, m2, m3, m4) ==
  LET ax == vector_x(va, p)   ay == vector_y(va, p)
      cx == vector_x(vc, p)
      c1 == vector_y_intercept(va, m1, p)
      c2 == vector_y_intercept(vc, m2, p)
      ix == IF ab_vert THEN ax
            ELSE IF ab_horz
                 THEN (IF cd_vert THEN cx ELSE CDiv(CSub(ay, c2), m2))
                 ELSE (IF cd_vert THEN cx
                       ELSE CDiv(CSub(c2, c1), CSub(m1, m2)))
      iy == IF ab_vert THEN CAdd(CMul(m2, ix), c2)
            ELSE IF ab_horz THEN ay
            ELSE CAdd(CMul(m1, ix), c1)
      c3 == vector_y_intercept(vc, m3, p2)
      c4 == vector_y_intercept(va, m4, p2)
      iz == IF ab_vert THEN CAdd(CMul(m3, ix), c3)
            ELSE CAdd(CMul(m4, ix), c4)
  IN  PlaneVector(p, ix, iy, iz)

\* are the lines parallel, and where they meet when they are not
IntersectLines(va, vc, p, p2, ab_vert, ab_horz, cd_vert, cd_horz, m1, m2, m3, m4) ==
  IF (IF ab_vert THEN cd_vert
      ELSE IF ab_horz THEN (~cd_vert /\ cd_horz)
      ELSE (~cd_vert /\ coord_equal(m1, m2)))
  THEN [ok |-> FALSE, pt |-> NoPoint]
  ELSE [ok |-> TRUE,
        pt |-> IntersectionPoint(va, vc, p, p2, ab_vert, ab_horz, cd_vert,
                                 m1, m2, m3, m4)]

\* the plane with y and z exchanged
SwapYZ(p) == [x |-> p.x, y |-> p.z, z |-> p.y]

\* Both lines AB and CD are infinite.  [ok, pt].
vector_intersect(va, vb, vc, vd, p) ==
  IntersectLines(va, vc, p, SwapYZ(p),
                 coord_equal(vector_x(va, p), vector_x(vb, p)),
                 coord_equal(vector_y(va, p), vector_y(vb, p)),
                 coord_equal(vector_x(vc, p), vector_x(vd, p)),
                 coord_equal(vector_y(vc, p), vector_y(vd, p)),
                 vector_y_gradient(va, vb, p),
                 vector_y_gradient(vc, vd, p),
                 vector_y_gradient(vc, vd, SwapYZ(p)),
                 vector_y_gradient(va, vb, SwapYZ(p)))

\* the first dimension in which |vector[dim]| is biggest is projected out
vector_find_plane(vector) ==
  LET bigger(d, e) == CGt(coord_abs(vector[d + 1]), coord_abs(vector[e + 1]))
      bd == CHOOSE d \in Dims :
              /\ \A e \in Dims : e < d => bigger(d, e)
              /\ \A e \in Dims : e > d => ~bigger(e, d)
  IN  [x |-> IF bd = 0 THEN 2 ELSE 0,
       y |-> IF bd = 1 THEN 2 ELSE 1,
       z |-> bd]

-----------------------------------------------------------------------------
(* Vertex.c: the vertex pool *)

\* vertex_array_init
EmptyVertexArray ==
  [nalloc |-> 0, nvertices |-> 0, nsorted |-> 0, vertices |-> <<>>]

\* vertex_array_get_vertex(varray, n) != NULL
HasVertex(va, n) == (n >= 0) /\ (n < va.nvertices)

vertex_array_get_vertex(va, n) == va.vertices[n + 1]

vertex_array_get_num_vertices(va) == va.nvertices

vertex_array_get_coords(va, n) == va.vertices[n + 1].coords

vertex_array_set_used(va, n) ==
  IF HasVertex(va, n)
  THEN [va EXCEPT !.vertices[n + 1].marked = TRUE]
  ELSE va

vertex_array_is_used(va, n) ==
  IF HasVertex(va, n) THEN va.vertices[n + 1].marked ELSE FALSE

RECURSIVE SetAllUsedFrom(_, _)
SetAllUsedFrom(va, v) ==
  IF v < va.nvertices
  THEN SetAllUsedFrom(vertex_array_set_used(va, v), v + 1)
  ELSE va

vertex_array_set_all_used(va) == SetAllUsedFrom(va, 0)

\* The while loop of vertex_array_get_id, hops being the links followed so
\* far.  A walk of more than nvertices links has entered a cycle of dup
\* links, which the loop never leaves: halts is FALSE then.
RECURSIVE GetIdWalk(_, _, _)
GetIdWalk(va, n, hops) ==
  IF ~HasVertex(va, n) THEN [halts |-> TRUE, id |-> -1]
  ELSE IF va.vertices[n + 1].dup >= 0
       THEN IF hops >= va.nvertices THEN [halts |-> FALSE, id |-> -1]
            ELSE GetIdWalk(va, va.vertices[n + 1].dup, hops + 1)
       ELSE [halts |-> TRUE, id |-> va.vertices[n + 1].id]

vertex_array_get_id(va, n) == GetIdWalk(va, n, 0).id

\* realloc of the vertex storage succeeds iff ok; returns the new pool, whose
\* nalloc is the C function's return value
vertex_array_alloc_vertices(va, n, ok) ==
  IF (n >= 0) /\ (n > va.nalloc)
  THEN LET dbl == IF va.nalloc # 0 THEN va.nalloc * 2 ELSE 8
           new_n == IF dbl < n THEN n ELSE dbl
       IN  IF ok THEN [va EXCEPT !.nalloc = new_n] ELSE va
  ELSE va

\* A variant that stores the vertex whether or not there is room for it.
vertex_array_add_vertex_unchecked(va, coords, ok) ==
  [va |-> [vertex_array_alloc_vertices(va, va.nvertices + 1, ok) EXCEPT
             !.nvertices = va.nvertices + 1,
             !.vertices = Append(va.vertices,
                            [coords |-> coords, id |-> va.nvertices,
                             dup |-> -1, marked |-> FALSE])],
   v |-> va.nvertices]

\* [va, v]: v is the new vertex's index or -1
vertex_array_add_vertex(va, coords, ok) ==
  LET new_nvert == va.nvertices + 1
      grown == vertex_array_alloc_vertices(va, new_nvert, ok)
  IN  IF grown.nalloc >= new_nvert
      THEN [va |-> [grown EXCEPT
                      !.nvertices = new_nvert,
                      !.vertices = Append(va.vertices,
                                     [coords |-> coords, id |-> va.nvertices,
                                      dup |-> -1, marked |-> FALSE])],
            v |-> va.nvertices]
      ELSE [va |-> grown, v |-> -1]

\* compare_vertices on the vertices with indices i and j
compare_vertices(va, i, j) ==
  LET a == va.vertices[i + 1].coords
      b == va.vertices[j + 1].coords
      differ == {n \in 1..3 : a[n] # b[n]}
      first == CHOOSE n \in differ : \A m \in differ : n <= m
  IN  IF (i = j) \/ (differ = {}) THEN 0
      ELSE IF CLt(a[first], b[first]) THEN -1 ELSE 1

\* What qsort may leave in sorted[]: the vertex indices in any order that
\* compare_vertices accepts (vertices that compare equal come in any order).
SortedOrders(va) ==
  LET n == va.nvertices
  IN  {s \in [1..n -> 0..(n - 1)] :
         /\ \A i, j \in 1..n : i # j => s[i] # s[j]
         /\ \A i, j \in 1..n : i < j => compare_vertices(va, s[i], s[j]) <= 0}

\* A variant of the loop that compares each vertex with its predecessor in
\* sorted[] instead of with the first vertex of the run.
RECURSIVE FindDuplicatesLoopAdjacent(_, _, _, _, _)
FindDuplicatesLoopAdjacent(verts, sorted, last, v, n) ==
  IF v >= Len(sorted) THEN [vertices |-> verts, n |-> n]
  ELSE LET vl == sorted[last + 1] + 1
           vv == sorted[v + 1] + 1
       IN  IF vector_equal(verts[vl].coords, verts[vv].coords)
           THEN LET linked == [verts EXCEPT ![vv].dup = vl - 1]
                    moved == IF verts[vv].marked
                             THEN [linked EXCEPT ![vl].marked = TRUE,
                                                 ![vv].marked = FALSE]
                             ELSE linked
                IN  FindDuplicatesLoopAdjacent(moved, sorted, v, v + 1, n + 1)
           ELSE FindDuplicatesLoopAdjacent(verts, sorted, v, v + 1, n)

\* A variant of the loop that leaves the mark on a duplicate when it marks
\* the original.
RECURSIVE FindDuplicatesLoopKeepMark(_, _, _, _, _)
FindDuplicatesLoopKeepMark(verts, sorted, last, v, n) ==
  IF v >= Len(sorted) THEN [vertices |-> verts, n |-> n]
  ELSE LET vl == sorted[last + 1] + 1
           vv == sorted[v + 1] + 1
       IN  IF vector_equal(verts[vl].coords, verts[vv].coords)
           THEN LET linked == [verts EXCEPT ![vv].dup = vl - 1]
                    moved == IF verts[vv].marked
                             THEN [linked EXCEPT ![vl].marked = TRUE]
                             ELSE linked
                IN  FindDuplicatesLoopKeepMark(moved, sorted, last, v + 1,
                                               n + 1)
           ELSE FindDuplicatesLoopKeepMark(verts, sorted, v, v + 1, n)

\* The loop over sorted[1..nvertices-1] of vertex_array_find_duplicates:
\* verts is the vertex storage, last and v index sorted[], n counts duplicates.
RECURSIVE FindDuplicatesLoop(_, _, _, _, _)
FindDuplicatesLoop(verts, sorted, last, v, n) ==
  IF v >= Len(sorted) THEN [vertices |-> verts, n |-> n]
  ELSE LET vl == sorted[last + 1] + 1
           vv == sorted[v + 1] + 1
       IN  IF vector_equal(verts[vl].coords, verts[vv].coords)
           THEN LET linked == [verts EXCEPT ![vv].dup = vl - 1]
                    moved == IF verts[vv].marked
                             THEN [linked EXCEPT ![vl].marked = TRUE,
                                                 ![vv].marked = FALSE]
                             ELSE linked
                IN  FindDuplicatesLoop(moved, sorted, last, v + 1, n + 1)
           ELSE FindDuplicatesLoop(verts, sorted, v, v + 1, n)

\* [va, n]: sorted is qsort's result, ok whether malloc of sorted[] succeeds
vertex_array_find_duplicates(va, sorted, ok) ==
  IF va.nvertices > 0
  THEN IF (va.nvertices > va.nsorted) /\ ~ok
       THEN [va |-> [va EXCEPT !.nsorted = 0], n |-> -1]
       ELSE LET r == FindDuplicatesLoop(va.vertices, sorted, 0, 1, 0)
            IN  [va |-> [va EXCEPT
                           !.nsorted = IF va.nvertices > va.nsorted
                                       THEN va.nvertices ELSE va.nsorted,
                           !.vertices = r.vertices],
                 n |-> r.n]
  ELSE [va |-> va, n |-> 0]

\* index of the first vertex with coordinates equal to coords, or -1
vertex_array_find_vertex(va, coords) ==
  LET eq == {v \in 0..(va.nvertices - 1) :
               vector_equal(va.vertices[v + 1].coords, coords)}
  IN  IF eq = {} THEN -1 ELSE CHOOSE v \in eq : \A w \in eq : v <= w

\* A variant of the loop that numbers every vertex, marked or not.
RECURSIVE RenumberLoopAll(_, _, _)
RenumberLoopAll(verts, v, next_id) ==
  IF v >= Len(verts) THEN [vertices |-> verts, next_id |-> next_id]
  ELSE RenumberLoopAll(IF next_id # v
                       THEN [verts EXCEPT ![v + 1].id = next_id]
                       ELSE verts,
                       v + 1, next_id + 1)

RECURSIVE RenumberLoop(_, _, _)
RenumberLoop(verts, v, next_id) ==
  IF v >= Len(verts) THEN [vertices |-> verts, next_id |-> next_id]
  ELSE IF verts[v + 1].marked
       THEN RenumberLoop(IF next_id # v
                         THEN [verts EXCEPT ![v + 1].id = next_id]
                         ELSE verts,
                         v + 1, next_id + 1)
       ELSE RenumberLoop(verts, v + 1, next_id)

\* [va, next_id]
vertex_array_renumber(va) ==
  LET r == RenumberLoop(va.vertices, 0, 0)
  IN  [va |-> [va EXCEPT !.vertices = r.vertices], next_id |-> r.next_id]

\* is the point i.pt where the lines meet on the edge from cva to cvb (cva
\* inclusive, cvb exclusive)
EdgeHasPoint(cva, cvb, i, p) ==
  LET ix == vector_x(i.pt, p)
      ax == vector_x(cva, p)
      bx == vector_x(cvb, p)
      iy == vector_y(i.pt, p)
      ay == vector_y(cva, p)
      by == vector_y(cvb, p)
  IN  IF ~i.ok THEN [ok |-> FALSE, pt |-> NoPoint]
      ELSE IF \/ coord_less_than(ix, LOWEST(ax, bx))
              \/ coord_less_than(HIGHEST(ax, bx), ix)
              \/ coord_less_than(iy, LOWEST(ay, by))
              \/ coord_less_than(HIGHEST(ay, by), iy)
              \/ vector_equal(i.pt, cvb)
           THEN [ok |-> FALSE, pt |-> i.pt]
           ELSE [ok |-> TRUE, pt |-> i.pt]

\* Edge AB (A inclusive, B exclusive) against the infinite line CD. [ok, pt]
vertex_array_edge_intersects_line(va, a, b, c, d, p) ==
  EdgeHasPoint(vertex_array_get_coords(va, a), vertex_array_get_coords(va, b),
               vector_intersect(vertex_array_get_coords(va, a),
                                vertex_array_get_coords(va, b),
                                vertex_array_get_coords(va, c),
                                vertex_array_get_coords(va, d), p),
               p)

\* is the point i.pt where the lines meet on both edges, whose bounding boxes
\* are given, when the boxes overlap
EdgesHavePoint(i, p, ab_low_x, ab_high_x, cd_low_x, cd_high_x, ab_low_y, ab_high_y, cd_low_y, cd_high_y) ==
  LET ix == vector_x(i.pt, p)
      iy == vector_y(i.pt, p)
  IN  IF \/ coord_less_than(cd_high_x, ab_low_x)
         \/ coord_less_than(ab_high_x, cd_low_x)
         \/ coord_less_than(cd_high_y, ab_low_y)
         \/ coord_less_than(ab_high_y, cd_low_y)
      THEN [ok |-> FALSE, pt |-> NoPoint]
      ELSE IF ~i.ok THEN [ok |-> FALSE, pt |-> NoPoint]
      ELSE IF \/ coord_less_than(ix, HIGHEST(ab_low_x, cd_low_x))
              \/ coord_less_than(LOWEST(ab_high_x, cd_high_x), ix)
              \/ coord_less_than(iy, HIGHEST(ab_low_y, cd_low_y))
              \/ coord_less_than(LOWEST(ab_high_y, cd_high_y), iy)
           THEN [ok |-> FALSE, pt |-> i.pt]
           ELSE [ok |-> TRUE, pt |-> i.pt]

\* the edges from cva to cvb and from cvc to cvd
EdgesMeet(cva, cvb, cvc, cvd, p) ==
  LET ax == vector_x(cva, p)   bx == vector_x(cvb, p)
      cx == vector_x(cvc, p)   dx == vector_x(cvd, p)
      ay == vector_y(cva, p)   by == vector_y(cvb, p)
      cy == vector_y(cvc, p)   dy == vector_y(cvd, p)
  IN  EdgesHavePoint(vector_intersect(cva, cvb, cvc, cvd, p), p,
                     LOWEST(ax, bx), HIGHEST(ax, bx),
                     LOWEST(cx, dx), HIGHEST(cx, dx),
                     LOWEST(ay, by), HIGHEST(ay, by),
                     LOWEST(cy, dy), HIGHEST(cy, dy))

\* Edges AB and CD, both of finite extent with inclusive ends. [ok, pt]
vertex_array_edges_intersect(va, a, b, c, d, p) ==
  EdgesMeet(vertex_array_get_coords(va, a), vertex_array_get_coords(va, b),
            vertex_array_get_coords(va, c), vertex_array_get_coords(va, d), p)

-----------------------------------------------------------------------------
(* Primitive.c *)

\* ARRAY_SIZE(primitive->sides)
MaxSides == 15

\* sides holds the first nsides elements of the C array; normal, low and high
\* keep their last contents while has_normal / has_bbox are false
primitive_init ==
  [colour |-> 0, id |-> 0, nsides |-> 0, sides |-> <<>>,
   normal |-> NoPoint, has_normal |-> FALSE,
   has_bbox |-> FALSE, low |-> NoPoint, high |-> NoPoint]

primitive_get_num_sides(primitive) == primitive.nsides

primitive_get_side(primitive, n) ==
  IF (n >= 0) /\ (n < primitive.nsides) /\ (n < MaxSides)
  THEN primitive.sides[n + 1]
  ELSE -1

\* A variant that does not look at the number of sides before it adds one.
primitive_add_side_unchecked(primitive, v) ==
  IF v >= 0
  THEN [side |-> primitive.nsides,
        primitive |-> [primitive EXCEPT !.nsides = @ + 1,
                                        !.sides = Append(@, v),
                                        !.has_normal = FALSE,
                                        !.has_bbox = FALSE]]
  ELSE [side |-> -1, primitive |-> primitive]

\* [side, primitive]: side is the index of the new side or -1
primitive_add_side(primitive, v) ==
  IF (v >= 0) /\ (primitive.nsides + 1 <= MaxSides)
  THEN [side |-> primitive.nsides,
        primitive |-> [primitive EXCEPT !.nsides = @ + 1,
                                        !.sides = Append(@, v),
                                        !.has_normal = FALSE,
                                        !.has_bbox = FALSE]]
  ELSE [side |-> -1, primitive |-> primitive]

\* A variant that leaves the cached normal in place.
primitive_delete_all_keep_normal(primitive) ==
  [primitive EXCEPT !.nsides = 0, !.sides = <<>>, !.has_bbox = FALSE]

primitive_delete_all(primitive) ==
  [primitive EXCEPT !.nsides = 0, !.sides = <<>>,
                    !.has_normal = FALSE, !.has_bbox = FALSE]

\* A variant that moves the last side to the front instead of reversing.
primitive_reverse_sides_rotated(primitive) ==
  [primitive EXCEPT
     !.sides = [n \in 1..primitive.nsides |->
                  primitive.sides[IF n = 1 THEN primitive.nsides ELSE n - 1]],
     !.has_normal = FALSE]

primitive_reverse_sides(primitive) ==
  [primitive EXCEPT
     !.sides = [n \in 1..primitive.nsides |->
                  primitive.sides[primitive.nsides + 1 - n]],
     !.has_normal = FALSE]

\* [has_normal, norm]
primitive_make_normal(primitive, va) ==
  IF primitive.nsides < 3
  THEN [has_normal |-> FALSE, norm |-> primitive.normal]
  ELSE IF \E side \in 0..2 : ~HasVertex(va, primitive_get_side(primitive, side))
       THEN [has_normal |-> FALSE, norm |-> primitive.normal]
       ELSE LET c0 == vertex_array_get_coords(va, primitive.sides[1])
                c1 == vertex_array_get_coords(va, primitive.sides[2])
                c2 == vertex_array_get_coords(va, primitive.sides[3])
                side_one == vector_sub(c1, c0)
                side_two == vector_sub(c2, c1)
                n == vector_norm(vector_cross(side_one, side_two))
            IN  IF n.has_norm
                THEN [has_normal |-> TRUE, norm |-> n.unit]
                ELSE [has_normal |-> FALSE, norm |-> primitive.normal]

\* the primitive with the normal n = [has_normal, norm] cached, when there is one
WithNormal(primitive, n) ==
  IF n.has_normal
  THEN [primitive EXCEPT !.normal = n.norm, !.has_normal = TRUE]
  ELSE primitive

\* the primitive with its normal cached, when it has one
primitive_ensure_normal(primitive, va) ==
  IF primitive.has_normal THEN primitive
  ELSE WithNormal(primitive, primitive_make_normal(primitive, va))

primitive_set_colour(primitive, colour) ==
  [primitive EXCEPT !.colour = colour]

primitive_get_colour(primitive) == primitive.colour

primitive_get_id(primitive) == primitive.id

primitive_set_id(primitive, id) ==
  IF id >= 0 THEN [primitive EXCEPT !.id = id] ELSE primitive

\* [has_bbox, low, high]
primitive_make_bbox(primitive, va) ==
  IF primitive.nsides < 1
     \/ \E s \in 1..primitive.nsides : ~HasVertex(va, primitive.sides[s])
  THEN [has_bbox |-> FALSE, low |-> primitive.low, high |-> primitive.high]
  ELSE LET cs == [s \in 1..primitive.nsides |->
                    vertex_array_get_coords(va, primitive.sides[s])]
           hi(dim) == CHOOSE c \in {cs[s][dim] : s \in 1..primitive.nsides} :
                        \A s \in 1..primitive.nsides : ~CGt(cs[s][dim], c)
           lo(dim) == CHOOSE c \in {cs[s][dim] : s \in 1..primitive.nsides} :
                        \A s \in 1..primitive.nsides : ~CLt(cs[s][dim], c)
       IN  [has_bbox |-> TRUE,
            low |-> [dim \in 1..3 |-> lo(dim)],
            high |-> [dim \in 1..3 |-> hi(dim)]]

\* the primitive with the bounding box bb = [has_bbox, low, high] cached, when
\* there is one
WithBBox(primitive, bb) ==
  IF bb.has_bbox
  THEN [primitive EXCEPT !.low = bb.low, !.high = bb.high, !.has_bbox = TRUE]
  ELSE primitive

\* the primitive with its bounding box cached, when it has one
primitive_ensure_bbox(primitive, va) ==
  IF primitive.has_bbox THEN primitive
  ELSE WithBBox(primitive, primitive_make_bbox(primitive, va))

\* the plane of a primitive p whose normal has been looked for
PlaneOf(p) ==
  [has_normal |-> p.has_normal,
   plane |-> IF p.has_normal THEN vector_find_plane(p.normal)
             ELSE [x |-> 0, y |-> 1, z |-> 2],
   primitive |-> p]

\* [has_normal, plane, primitive]
primitive_find_plane(primitive, va) ==
  PlaneOf(primitive_ensure_normal(primitive, va))

\* The comparison made by primitive_coplanar once the normals of p1 and q1
\* have been looked for.  When only q1 has a normal the two are swapped and
\* norm is taken from the primitive that is q after the swap, the one without
\* a normal.
CoplanarWithNormals(p1, q1, va) ==
  LET got_p == p1.has_normal
      got_q == q1.has_normal
      swap == ~(got_p /\ got_q) /\ ~got_p
      pp == IF swap THEN q1 ELSE p1
      qq == IF swap THEN p1 ELSE q1
      norm == IF swap THEN qq.normal ELSE p1.normal
      nsides_q == IF got_p /\ got_q THEN 1 ELSE primitive_get_num_sides(qq)
      vp == primitive_get_side(pp, 0)
      in_plane(s) ==
        LET vq == primitive_get_side(qq, s)
        IN  /\ HasVertex(va, vp)
            /\ HasVertex(va, vq)
            /\ coord_equal(
                 coord_abs(vector_dot(norm,
                   vector_sub(vertex_array_get_coords(va, vp),
                              vertex_array_get_coords(va, vq)))),
                 Zero)
      coplanar ==
        IF ~(got_p \/ got_q) THEN FALSE
        ELSE IF got_p /\ got_q /\ ~vector_equal(p1.normal, q1.normal)
             THEN FALSE
             ELSE \A s \in 0..(nsides_q - 1) : in_plane(s)
  IN  [coplanar |-> coplanar, p |-> p1, q |-> q1]

\* [coplanar, p, q]: p and q come back with their normals cached
primitive_coplanar(p, q, va) ==
  CoplanarWithNormals(primitive_ensure_normal(p, va),
                      primitive_ensure_normal(q, va), va)

primitive_get_top_y(primitive, va, pln) == primitive.high[pln.y + 1]

\* The loop over the edges of primitive_contains_point, from edge s on; the
\* edge runs from side s-1 (the last side when s = 0) to side s.
RECURSIVE ContainsPointLoop(_, _, _, _, _, _)
ContainsPointLoop(primitive, va, v, pln, s, is_inside) ==
  IF s >= primitive.nsides THEN is_inside
  ELSE
    LET v2 == primitive_get_side(primitive, s)
        vend == primitive_get_side(primitive,
                                   IF s = 0 THEN primitive.nsides - 1 ELSE s - 1)
        start == vertex_array_get_coords(va, v2)
        end == vertex_array_get_coords(va, vend)
        point == vertex_array_get_coords(va, v)
        px == vector_x(point, pln)
        py == vector_y(point, pln)
        start_x == vector_x(start, pln)
        start_y == vector_y(start, pln)
        end_x == vector_x(end, pln)
        end_y == vector_y(end, pln)
        top_y == primitive_get_top_y(primitive, va, pln)
        high_x == HIGHEST(start_x, end_x)
        low_x == LOWEST(start_x, end_x)
        low_y == LOWEST(start_y, end_y)
        high_y == HIGHEST(start_y, end_y)
        m == vector_y_gradient(start, end, pln)
        intersect_x == IF coord_equal(end_x, start_x) THEN start_x
                       ELSE CAdd(start_x, CDiv(CSub(py, start_y), m))
        continue == ContainsPointLoop(primitive, va, v, pln, s + 1, is_inside)
    IN  IF v2 = v THEN TRUE
        ELSE IF ~HasVertex(va, v2) THEN FALSE
        ELSE IF coord_less_than(high_x, px) THEN continue
        ELSE IF coord_equal(end_y, start_y)
             THEN IF coord_less_than(px, low_x) THEN continue
                  ELSE IF coord_equal(py, end_y) \/ coord_equal(py, start_y)
                       THEN TRUE
                       ELSE continue
        ELSE IF CLt(py, low_y) THEN continue
        ELSE IF CGt(py, high_y) THEN continue
        ELSE IF (py = high_y) /\ (high_y # top_y) THEN continue
        ELSE IF coord_equal(px, intersect_x) THEN TRUE
        ELSE ContainsPointLoop(primitive, va, v, pln, s + 1,
                               IF coord_less_than(px, intersect_x)
                               THEN ~is_inside ELSE is_inside)

\* primitive has its bounding box cached
primitive_contains_point(primitive, va, v, pln) ==
  IF primitive.nsides < 3 THEN FALSE
  ELSE IF primitive_get_side(primitive, primitive.nsides - 1) = v THEN TRUE
  ELSE IF ~HasVertex(va, primitive_get_side(primitive, primitive.nsides - 1))
          \/ ~HasVertex(va, v)
       THEN FALSE
  ELSE IF \/ ~vector_xy_greater_or_equal(vertex_array_get_coords(va, v),
                                         primitive.low, pln)
          \/ ~vector_xy_greater_or_equal(primitive.high,
                                         vertex_array_get_coords(va, v), pln)
       THEN FALSE
  ELSE ContainsPointLoop(primitive, va, v, pln, 0, FALSE)

\* the comparison made by primitive_contains once the bounding boxes of q1 and
\* p1 have been looked for
ContainsWithBBoxes(q1, p1, va, pln) ==
  [contains |->
     IF ~q1.has_bbox \/ ~p1.has_bbox THEN FALSE
     ELSE IF \/ ~vector_xy_greater_or_equal(p1.low, q1.low, pln)
             \/ ~vector_xy_greater_or_equal(q1.high, p1.high, pln)
          THEN FALSE
          ELSE \A t \in 0..(p1.nsides - 1) :
                 primitive_contains_point(q1, va,
                                          primitive_get_side(p1, t), pln),
   q |-> q1, p |-> p1]

\* the bounding box of p is looked for only when q1 has one
ContainsWithBBox(q1, p, va, pln) ==
  ContainsWithBBoxes(q1,
                     IF q1.has_bbox THEN primitive_ensure_bbox(p, va) ELSE p,
                     va, pln)

\* [contains, q, p]: does q contain p; q and p come back with bounding boxes
primitive_contains(q, p, va, pln) ==
  ContainsWithBBox(primitive_ensure_bbox(q, va), p, va, pln)

primitive_equal(q, p) ==
  LET nsides_q == primitive_get_num_sides(q)
      nsides_p == primitive_get_num_sides(p)
      first_side_p == primitive_get_side(p, 0)
      found == {s \in 0..(nsides_q - 1) :
                  primitive_get_side(q, s) = first_side_p}
      s0 == CHOOSE s \in found : \A r \in found : s <= r
  IN  IF nsides_p # nsides_q THEN FALSE
      ELSE IF nsides_p > 0
           THEN IF found = {} THEN FALSE
                ELSE \A t \in 1..(nsides_p - 1) :
                       primitive_get_side(q, (s0 + t) % nsides_q)
                         = primitive_get_side(p, t)
           ELSE TRUE

\* does the point i.pt, where an edge meets the edge from cva to cvb, lie
\* strictly between the ends of that edge
CrossedAt(i, cva, cvb) ==
  /\ i.ok
  /\ ~vector_equal(i.pt, cva)
  /\ ~vector_equal(i.pt, cvb)

\* does an edge of primitive cross the edge a..b of another primitive
primitive_intersect(primitive, a, b, va, pln) ==
  LET nsides == primitive_get_num_sides(primitive)
      crossed(s) ==
        LET side == primitive_get_side(primitive, s)
            last_side == primitive_get_side(primitive,
                                            IF s = 0 THEN nsides - 1 ELSE s - 1)
        IN  /\ ~((a = last_side) \/ (b = last_side) \/ (a = side) \/ (b = side))
            /\ CrossedAt(vertex_array_edges_intersect(va, a, b, last_side,
                                                      side, pln),
                         vertex_array_get_coords(va, a),
                         vertex_array_get_coords(va, b))
  IN  IF nsides < 3 THEN FALSE
      ELSE \E s \in 0..(nsides - 1) : crossed(s)

\* The loop over the sides of primitive_split works on
\* r = [ok, state, last_side, tmp, out, va]: ok is FALSE once the function has
\* returned false.  alloc_ok: allocations made by the call succeed.

\* The line cuts the edge that ends at side in the vertex v of the pool va1:
\* the clip starts, or finishes, there.
SplitCut(side, r, v, va1) ==
  LET keep(pr) == [side |-> 0, primitive |-> pr]
      \* finishing the clip
      fo == IF v # r.last_side THEN primitive_add_side(r.out, v)
            ELSE keep(r.out)
      ft == IF v # side THEN primitive_add_side(r.tmp, v) ELSE keep(r.tmp)
      \* starting the clip
      st == IF v # r.last_side THEN primitive_add_side(r.tmp, v)
            ELSE keep(r.tmp)
      so == IF v # side THEN primitive_add_side(primitive_init, v)
            ELSE keep(primitive_init)
  IN  IF v < 0 THEN [r EXCEPT !.ok = FALSE, !.va = va1]
      ELSE IF r.state = "SPLIT_IN_PROGRESS"
           THEN IF fo.side < 0
                THEN [r EXCEPT !.ok = FALSE, !.va = va1,
                               !.state = "SPLIT_COMPLETE"]
                ELSE [r EXCEPT !.ok = (ft.side >= 0), !.va = va1,
                               !.state = "SPLIT_COMPLETE",
                               !.out = fo.primitive, !.tmp = ft.primitive]
           ELSE IF st.side < 0
                THEN [r EXCEPT !.ok = FALSE, !.va = va1,
                               !.state = "SPLIT_IN_PROGRESS"]
                ELSE [r EXCEPT !.ok = (so.side >= 0), !.va = va1,
                               !.state = "SPLIT_IN_PROGRESS",
                               !.tmp = st.primitive, !.out = so.primitive]

\* the vertex of the point of intersection is the one found in the pool, or
\* else the one added to it
SplitVertex(side, r, found, added) ==
  IF found >= 0 THEN SplitCut(side, r, found, r.va)
  ELSE SplitCut(side, r, added.v, added.va)

\* hit = [ok, pt]: whether and where the line cuts the edge that ends at side
SplitHit(side, r, hit, alloc_ok) ==
  IF ~hit.ok THEN r
  ELSE SplitVertex(side, r, vertex_array_find_vertex(r.va, hit.pt),
                   vertex_array_add_vertex(r.va, hit.pt, alloc_ok))

\* the side is copied to the polygon under construction: moved = [side,
\* primitive] is the outcome of primitive_add_side
SplitMoved(side, cut, moved) ==
  IF moved.side < 0 THEN [cut EXCEPT !.ok = FALSE]
  ELSE IF cut.state = "SPLIT_IN_PROGRESS"
       THEN [cut EXCEPT !.out = moved.primitive, !.last_side = side]
       ELSE [cut EXCEPT !.tmp = moved.primitive, !.last_side = side]

\* SplitMove keeping every side in the polygon that is split
SplitMoveRetained(side, cut) ==
  IF ~cut.ok THEN cut
  ELSE IF primitive_add_side(cut.tmp, side).side < 0
       THEN [cut EXCEPT !.ok = FALSE]
       ELSE [cut EXCEPT !.tmp = primitive_add_side(cut.tmp, side).primitive,
                        !.last_side = side]

SplitMove(side, cut) ==
  IF ~cut.ok THEN cut
  ELSE SplitMoved(side, cut,
                  primitive_add_side(IF cut.state = "SPLIT_IN_PROGRESS"
                                     THEN cut.out ELSE cut.tmp, side))

\* SplitSide testing the edge against the line whatever the state is
SplitSideAlways(primitive, a, b, pln, alloc_ok, s, r) ==
  SplitMove(primitive_get_side(primitive, s),
            SplitHit(primitive_get_side(primitive, s), r,
                     vertex_array_edge_intersects_line(
                       r.va, r.last_side, primitive_get_side(primitive, s),
                       a, b, pln),
                     alloc_ok))

\* one iteration of the loop over the sides of primitive_split, for side s
SplitSide(primitive, a, b, pln, alloc_ok, s, r) ==
  SplitMove(primitive_get_side(primitive, s),
            SplitHit(primitive_get_side(primitive, s), r,
                     IF r.state # "SPLIT_COMPLETE"
                     THEN vertex_array_edge_intersects_line(
                            r.va, r.last_side, primitive_get_side(primitive, s),
                            a, b, pln)
                     ELSE [ok |-> FALSE, pt |-> NoPoint],
                     alloc_ok))

RECURSIVE SplitLoop(_, _, _, _, _, _, _)
SplitLoop(primitive, a, b, pln, alloc_ok, s, r) ==
  IF ~r.ok \/ (s >= primitive.nsides) THEN r
  ELSE SplitLoop(primitive, a, b, pln, alloc_ok, s + 1,
                 SplitSide(primitive, a, b, pln, alloc_ok, s, r))

\* SplitCopy leaving the new polygon with the colour and the id that
\* primitive_init gave it
SplitCopyBlank(out1, copied) ==
  IF copied.has_normal
  THEN [out1 EXCEPT !.normal = copied.normal, !.has_normal = TRUE]
  ELSE out1

\* The new polygon out1 takes the colour, the id and the normal of the polygon
\* that was split, which is copied by now.
SplitCopy(out1, copied) ==
  LET finished == primitive_set_id(
                    primitive_set_colour(out1, primitive_get_colour(copied)),
                    primitive_get_id(copied))
  IN  IF copied.has_normal
      THEN [finished EXCEPT !.normal = copied.normal, !.has_normal = TRUE]
      ELSE finished

\* The end of primitive_split, r being the outcome of its loop; tmp_cp and
\* out_cp are the outcomes of primitive_coplanar in its asserts.  A build
\* without NDEBUG (nd FALSE) stops the program when an assert fails, and
\* caches the normals of out and of the polygon while it evaluates them.
SplitComplete(primitive, r, nd, tmp_cp, out_cp) ==
  LET tmp_ok == (primitive_get_num_sides(r.tmp) > 2) /\ tmp_cp.coplanar
      out_ok == (primitive_get_num_sides(r.out) > 2) /\ out_cp.coplanar
      out1 == IF nd THEN r.out ELSE out_cp.p
      prim1 == IF nd THEN primitive ELSE out_cp.q
      copied == [primitive_delete_all(prim1) EXCEPT
                   !.nsides = r.tmp.nsides, !.sides = r.tmp.sides]
  IN  IF ~nd /\ ~(tmp_ok /\ out_ok)
      THEN [ok |-> FALSE, split |-> TRUE, aborted |-> TRUE, va |-> r.va,
            primitive |-> primitive, out |-> r.out]
      ELSE [ok |-> TRUE, split |-> TRUE, aborted |-> FALSE, va |-> r.va,
            primitive |-> copied, out |-> SplitCopy(out1, copied)]

\* SplitEnd copying the sides of tmp to the primitive without a split too
SplitEndCopied(primitive, r, nd) ==
  IF ~r.ok
  THEN [ok |-> FALSE, split |-> FALSE, aborted |-> FALSE, va |-> r.va,
        primitive |-> primitive, out |-> r.out]
  ELSE IF r.state # "SPLIT_COMPLETE"
  THEN [ok |-> TRUE, split |-> FALSE, aborted |-> FALSE, va |-> r.va,
        primitive |-> [primitive_delete_all(primitive) EXCEPT
                         !.nsides = r.tmp.nsides, !.sides = r.tmp.sides],
        out |-> r.out]
  ELSE SplitComplete(primitive, r, nd,
                     primitive_coplanar(r.tmp, primitive, r.va),
                     primitive_coplanar(r.out, primitive, r.va))

SplitEnd(primitive, r, nd) ==
  IF ~r.ok
  THEN [ok |-> FALSE, split |-> FALSE, aborted |-> FALSE, va |-> r.va,
        primitive |-> primitive, out |-> r.out]
  ELSE IF r.state # "SPLIT_COMPLETE"
  THEN [ok |-> TRUE, split |-> FALSE, aborted |-> FALSE, va |-> r.va,
        primitive |-> primitive, out |-> r.out]
  ELSE SplitComplete(primitive, r, nd,
                     primitive_coplanar(r.tmp, primitive, r.va),
                     primitive_coplanar(r.out, primitive, r.va))

\* the state of the loop of primitive_split before its first iteration
SplitStart(primitive, va, out) ==
  [ok |-> TRUE, state |-> "SPLIT_NONE",
   last_side |-> primitive_get_side(primitive,
                                    primitive_get_num_sides(primitive) - 1),
   tmp |-> primitive_init, out |-> out, va |-> va]

\* [ok, split, aborted, va, primitive, out].  ok is the return value; aborted
\* says that an assert stopped the program.
primitive_split(primitive, a, b, va, pln, out, alloc_ok, nd) ==
  SplitEnd(primitive,
           IF primitive_get_num_sides(primitive) < 3
           THEN SplitStart(primitive, va, out)
           ELSE SplitLoop(primitive, a, b, pln, alloc_ok, 0,
                          SplitStart(primitive, va, out)),
           nd)

\* the state of the loop of primitive_clip after primitive_split returned sp
ClipSplit(sp, side, this_inside) ==
  [ok |-> sp.ok, split |-> sp.split, aborted |-> sp.aborted, va |-> sp.va,
   primitive |-> sp.primitive, out |-> sp.out,
   last_side |-> side, last_inside |-> this_inside]

\* an iteration of the loop of primitive_clip that never splits
ClipSideNoSplit(pln, alloc_ok, nd, r, side, this_inside) ==
  [r EXCEPT !.last_side = side, !.last_inside = this_inside]

\* One iteration of the loop over the edges of the clipper of primitive_clip,
\* for the edge that ends at side; this_inside: the polygon contains side.
\* r = [ok, split, aborted, va, primitive, out, last_side, last_inside]
ClipSide(pln, alloc_ok, nd, r, side, this_inside) ==
  IF (r.last_inside /\ this_inside)
     \/ primitive_intersect(r.primitive, r.last_side, side, r.va, pln)
  THEN ClipSplit(primitive_split(r.primitive, r.last_side, side, r.va, pln,
                                 r.out, alloc_ok, nd),
                 side, this_inside)
  ELSE [r EXCEPT !.last_side = side, !.last_inside = this_inside]

\* the loop over the edges of the clipper of primitive_clip, from side t on
RECURSIVE ClipLoop(_, _, _, _, _, _, _)
ClipLoop(clipper, pln, alloc_ok, nd, t, num_sides, r) ==
  IF ~r.ok \/ r.split \/ (t >= num_sides) THEN r
  ELSE ClipLoop(clipper, pln, alloc_ok, nd, t + 1, num_sides,
                ClipSide(pln, alloc_ok, nd, r, primitive_get_side(clipper, t),
                         primitive_contains_point(
                           r.primitive, r.va,
                           primitive_get_side(clipper, t), pln)))

\* the outcome of primitive_clip after its loop ended in the state r
ClipEnd(c1, r) ==
  [ok |-> r.ok, split |-> r.split, aborted |-> r.aborted, va |-> r.va,
   primitive |-> r.primitive, clipper |-> c1, out |-> r.out]

\* ClipWithBBoxes without the return for a clipper that is a point or a line
ClipWithBBoxesAnySides(p1, c1, va, pln, out, split0, alloc_ok, nd) ==
  LET ret(ok) == [ok |-> ok, split |-> split0, aborted |-> FALSE, va |-> va,
                  primitive |-> p1, clipper |-> c1, out |-> out]
      num_sides == primitive_get_num_sides(c1)
      last_side == primitive_get_side(c1, num_sides - 1)
  IN  IF ~c1.has_bbox \/ ~p1.has_bbox THEN ret(FALSE)
      ELSE IF \/ ~vector_xy_less_than(c1.low, p1.high, pln)
              \/ ~vector_xy_less_than(p1.low, c1.high, pln)
           THEN ret(TRUE)
      ELSE ClipEnd(c1,
             ClipLoop(c1, pln, alloc_ok, nd, 0, num_sides,
                      [ok |-> TRUE, split |-> split0, aborted |-> FALSE,
                       va |-> va, primitive |-> p1, out |-> out,
                       last_side |-> last_side,
                       last_inside |->
                         primitive_contains_point(p1, va, last_side, pln)]))

\* primitive_clip once the bounding boxes of c1 and p1 have been looked for
ClipWithBBoxes(p1, c1, va, pln, out, split0, alloc_ok, nd) ==
  LET ret(ok) == [ok |-> ok, split |-> split0, aborted |-> FALSE, va |-> va,
                  primitive |-> p1, clipper |-> c1, out |-> out]
      num_sides == primitive_get_num_sides(c1)
      last_side == primitive_get_side(c1, num_sides - 1)
  IN  IF ~c1.has_bbox \/ ~p1.has_bbox THEN ret(FALSE)
      ELSE IF \/ ~vector_xy_less_than(c1.low, p1.high, pln)
              \/ ~vector_xy_less_than(p1.low, c1.high, pln)
           THEN ret(TRUE)
      ELSE IF num_sides < 3 THEN ret(FALSE)
      ELSE ClipEnd(c1,
             ClipLoop(c1, pln, alloc_ok, nd, 0, num_sides,
                      [ok |-> TRUE, split |-> split0, aborted |-> FALSE,
                       va |-> va, primitive |-> p1, out |-> out,
                       last_side |-> last_side,
                       last_inside |->
                         primitive_contains_point(p1, va, last_side, pln)]))

\* the bounding box of the polygon is looked for only when the clipper has one
ClipWithBBox(primitive, c1, va, pln, out, split0, alloc_ok, nd) ==
  ClipWithBBoxes(IF c1.has_bbox THEN primitive_ensure_bbox(primitive, va)
                 ELSE primitive,
                 c1, va, pln, out, split0, alloc_ok, nd)

\* [ok, split, aborted, va, primitive, clipper, out]; split0 is *split on entry
primitive_clip(primitive, clipper, va, pln, out, split0, alloc_ok, nd) ==
  ClipWithBBox(primitive, primitive_ensure_bbox(clipper, va), va, pln, out,
               split0, alloc_ok, nd)

RECURSIVE SetUsedSides(_, _, _)
SetUsedSides(primitive, va, s) ==
  IF s >= primitive.nsides THEN va
  ELSE SetUsedSides(primitive,
                    vertex_array_set_used(va, primitive_get_side(primitive, s)),
                    s + 1)

primitive_set_used(primitive, va) == SetUsedSides(primitive, va, 0)

-----------------------------------------------------------------------------
(* Group.c *)

\* group_init; primitives holds the first nprimitives elements of the C array
EmptyGroup == [nalloc |-> 0, nprimitives |-> 0, primitives |-> <<>>]

group_get_num_primitives(group) == group.nprimitives

\* group_get_primitive(group, n) != NULL
HasPrimitive(group, n) == (n >= 0) /\ (n < group.nprimitives)

group_get_primitive(group, n) == group.primitives[n + 1]

\* realloc succeeds iff ok; returns the group, whose nalloc is the C
\* function's return value
group_alloc_primitives(group, n, ok) ==
  IF (n >= 0) /\ (n > group.nalloc) /\ ok
  THEN [group EXCEPT !.nalloc = IF group.nalloc # 0
                                 THEN group.nalloc * 2 ELSE 8]
  ELSE group

\* A variant that initialises element n without moving the elements from n
\* on up by one: the last element is lost instead.
group_insert_primitive_unmoved(group, n, ok) ==
  LET new_nprim == group.nprimitives + 1
      grown == IF (n >= 0) /\ (n < group.nprimitives + 1)
               THEN group_alloc_primitives(group, new_nprim, ok)
               ELSE group
  IN  IF (n >= 0) /\ (n < group.nprimitives + 1)
         /\ (grown.nalloc >= new_nprim)
      THEN [ok |-> TRUE,
            group |-> [grown EXCEPT
                         !.nprimitives = new_nprim,
                         !.primitives =
                           SubSeq(group.primitives, 1, n)
                             \o <<primitive_init>>
                             \o SubSeq(group.primitives, n + 1,
                                       group.nprimitives - 1)
                             \o (IF n < group.nprimitives
                                 THEN <<primitive_init>> ELSE <<>>)]]
      ELSE [ok |-> FALSE, group |-> grown]

\* [ok, group]: ok iff the C function returns a primitive, which is then
\* element n of the group and is initialised
group_insert_primitive(group, n, ok) ==
  LET new_nprim == group.nprimitives + 1
      grown == IF (n >= 0) /\ (n < group.nprimitives + 1)
               THEN group_alloc_primitives(group, new_nprim, ok)
               ELSE group
  IN  IF (n >= 0) /\ (n < group.nprimitives + 1)
         /\ (grown.nalloc >= new_nprim)
      THEN [ok |-> TRUE,
            group |-> [grown EXCEPT
                         !.nprimitives = new_nprim,
                         !.primitives =
                           SubSeq(group.primitives, 1, n)
                             \o <<primitive_init>>
                             \o SubSeq(group.primitives, n + 1,
                                       group.nprimitives)]]
      ELSE [ok |-> FALSE, group |-> grown]

group_add_primitive(group, ok) ==
  group_insert_primitive(group, group.nprimitives, ok)

\* group_delete_primitive taking out the primitive after n
group_delete_primitive_after(group, n) ==
  IF HasPrimitive(group, n + 1)
  THEN [group EXCEPT
          !.nprimitives = @ - 1,
          !.primitives = SubSeq(group.primitives, 1, n + 1)
                           \o SubSeq(group.primitives, n + 3,
                                     group.nprimitives)]
  ELSE group

group_delete_primitive(group, n) ==
  IF HasPrimitive(group, n)
  THEN [group EXCEPT
          !.nprimitives = @ - 1,
          !.primitives = SubSeq(group.primitives, 1, n)
                           \o SubSeq(group.primitives, n + 2,
                                     group.nprimitives)]
  ELSE group

RECURSIVE GroupSetUsedFrom(_, _, _)
GroupSetUsedFrom(group, va, n) ==
  IF n >= group.nprimitives THEN va
  ELSE GroupSetUsedFrom(group,
                        primitive_set_used(group_get_primitive(group, n), va),
                        n + 1)

group_set_used(group, va) == GroupSetUsedFrom(group, va, 0)

-----------------------------------------------------------------------------
(* Clip.c.  A call of clip_polygons runs as a sequence of steps, one per    *)
(* iteration of a loop of clip_polygons, clip_group or clip_group_vs_group; *)
(* pc tells which loop runs next.                                           *)

\* enum { MAX_SPLITS = 1024 }
MAX_SPLITS == 1024

\* groups + group_order[bg], the back group, and groups + fg of
\* clip_group_vs_group, the front group: fg = bg during the call that clips
\* the back group against itself
BackIndex == group_order[bg + 1]
FrontIndex == group_order[fg + 1]
BackGroup == groups[BackIndex + 1]
FrontGroup == groups[FrontIndex + 1]
BackP == group_get_primitive(BackGroup, back)
FrontP == group_get_primitive(FrontGroup, front)

\* gs with primitive n of group g replaced
WithPrimitive(gs, g, n, primitive) ==
  [gs EXCEPT ![g + 1].primitives[n + 1] = primitive]

\* gs with the front and the back primitive replaced
WithFrontBack(gs, frontp, backp) ==
  WithPrimitive(WithPrimitive(gs, FrontIndex, front, frontp),
                BackIndex, back, backp)

\* hist of a clip_polygons call: the last step, the splits made by the call
\* so far, the splits made against the current front primitive, the state
\* the last step started from, and the splits the call had made when the
\* clip_group call for the current back group began
ClipHist(ev, total, pair, pre) ==
  [ev |-> ev, total |-> total, pair |-> pair, pre |-> pre,
   base |-> IF ev \in {"call", "clip_polygons"} THEN total ELSE hist.base]

\* what a step of clip_group_vs_group starts from
ClipPre ==
  [groups |-> groups, nvertices |-> varray.nvertices, nsplit |-> nsplit,
   back |-> back, front |-> front, bgi |-> BackIndex, fgi |-> FrontIndex]

\* clip_polygons returns ret
ClipReturn(ret) == result' = ret /\ pc' = "done"

\* the loop of clip_polygons with one count of splits for the whole call
ClipPolygonsLoopOneCount ==
  /\ pc = "clip_polygons"
  /\ IF bg < Len(group_order)
     THEN /\ ndel' = 0 /\ back' = 0
          /\ pc' = "clip_group"
          /\ UNCHANGED <<nsplit, result>>
     ELSE /\ ClipReturn(TRUE)
          /\ UNCHANGED <<nsplit, ndel, back>>
  /\ hist' = ClipHist("clip_polygons", hist.total, 0, <<>>)
  /\ UNCHANGED <<varray, groups, group_order, bg, fg, front, plane, del,
                 split, ndebug>>

\* the loop of clip_polygons
ClipPolygonsLoop ==
  /\ pc = "clip_polygons"
  /\ IF bg < Len(group_order)
     THEN /\ nsplit' = 0 /\ ndel' = 0 /\ back' = 0
          /\ pc' = "clip_group"
          /\ UNCHANGED result
     ELSE /\ ClipReturn(TRUE)
          /\ UNCHANGED <<nsplit, ndel, back>>
  /\ hist' = ClipHist("clip_polygons", hist.total, 0, <<>>)
  /\ UNCHANGED <<varray, groups, group_order, bg, fg, front, plane, del,
                 split, ndebug>>

\* the loop over the back primitives of clip_group, up to the call that clips
\* the back group against itself
ClipGroupLoop ==
  /\ pc = "clip_group"
  /\ IF back < group_get_num_primitives(BackGroup)
     THEN /\ del' = FALSE
          /\ fg' = bg /\ front' = back + 1
          /\ pc' = "clip_group_vs_group"
          /\ UNCHANGED bg
     ELSE /\ bg' = bg + 1
          /\ pc' = "clip_polygons"
          /\ UNCHANGED <<del, fg, front>>
  /\ hist' = ClipHist("clip_group", hist.total, 0, <<>>)
  /\ UNCHANGED <<varray, groups, group_order, back, plane, nsplit, ndel,
                 split, result, ndebug>>

\* clip_group_vs_group returns true to clip_group
GroupVsGroupReturn == fg' = fg + 1 /\ pc' = "fg_loop"

\* FindPlaneStep without the return for a back primitive that has no plane
FindPlaneStepAnyPlane(fp) ==
  /\ pc = "clip_group_vs_group"
  /\ IF ~HasPrimitive(BackGroup, back)
     THEN /\ ClipReturn(FALSE)
          /\ UNCHANGED <<groups, plane, fg>>
     ELSE /\ groups' = WithPrimitive(groups, BackIndex, back, fp.primitive)
          /\ plane' = fp.plane
          /\ pc' = "front_loop"
          /\ UNCHANGED <<fg, result>>
  /\ hist' = ClipHist("clip_group_vs_group", hist.total, 0, <<>>)
  /\ UNCHANGED <<varray, group_order, bg, back, front, nsplit, ndel, del,
                 split, ndebug>>

\* clip_group_vs_group up to its loop over the front primitives; fp is what
\* primitive_find_plane(backp) gives
FindPlaneStep(fp) ==
  /\ pc = "clip_group_vs_group"
  /\ IF ~HasPrimitive(BackGroup, back)
     THEN /\ ClipReturn(FALSE)
          /\ UNCHANGED <<groups, plane, fg>>
     ELSE /\ groups' = WithPrimitive(groups, BackIndex, back, fp.primitive)
          /\ IF fp.has_normal
             THEN /\ plane' = fp.plane
                  /\ pc' = "front_loop"
                  /\ UNCHANGED fg
             ELSE /\ GroupVsGroupReturn
                  /\ UNCHANGED plane
          /\ UNCHANGED result
  /\ hist' = ClipHist("clip_group_vs_group", hist.total, 0, <<>>)
  /\ UNCHANGED <<varray, group_order, bg, back, front, nsplit, ndel, del,
                 split, ndebug>>

ClipGroupVsGroup == FindPlaneStep(primitive_find_plane(BackP, varray))

\* One iteration of the loop over the front primitives up to the do-while
\* loop; cop is what primitive_coplanar(frontp, backp) gives.
FrontStep(cop) ==
  /\ pc = "front_loop"
  /\ IF front >= group_get_num_primitives(FrontGroup)
     THEN /\ GroupVsGroupReturn
          /\ UNCHANGED <<groups, front, split>>
          /\ hist' = ClipHist("return", hist.total, 0, <<>>)
     ELSE IF primitive_get_num_sides(FrontP) < 3
     THEN /\ front' = front + 1
          /\ UNCHANGED <<groups, fg, pc, split>>
          /\ hist' = ClipHist("skip", hist.total, 0, <<>>)
     ELSE /\ groups' = WithFrontBack(groups, cop.p, cop.q)
          /\ IF cop.coplanar
             THEN /\ split' = FALSE
                  /\ pc' = "do_while"
                  /\ UNCHANGED front
             ELSE /\ front' = front + 1
                  /\ UNCHANGED <<pc, split>>
          /\ UNCHANGED fg
          /\ hist' = ClipHist(IF cop.coplanar THEN "coplanar" ELSE "skip",
                              hist.total, 0, <<>>)
  /\ UNCHANGED <<varray, group_order, bg, back, plane, nsplit, ndel, del,
                 result, ndebug>>

FrontLoop == FrontStep(primitive_coplanar(FrontP, BackP, varray))

\* the back primitive is covered: it is deleted and clip_group_vs_group
\* returns; gs is groups with the caches the predicates filled
Covered(gs) ==
  /\ groups' = [gs EXCEPT ![BackIndex + 1] =
                            group_delete_primitive(gs[BackIndex + 1], back)]
  /\ del' = TRUE
  /\ GroupVsGroupReturn
  /\ hist' = ClipHist("covered", hist.total, hist.pair, ClipPre)
  /\ UNCHANGED <<varray, front, nsplit, split, result>>

\* SplitInserted without the ++front that follows an insertion into the
\* group of the front primitive
SplitInsertedFrontStays(g1, ins, newbackp) ==
  IF ~ins.ok
  THEN /\ groups' = [g1 EXCEPT ![BackIndex + 1] = ins.group]
       /\ ClipReturn(FALSE)
       /\ hist' = ClipHist("no_memory", hist.total, hist.pair, <<>>)
       /\ UNCHANGED <<nsplit, front>>
  ELSE /\ groups' = WithPrimitive([g1 EXCEPT ![BackIndex + 1] = ins.group],
                                  BackIndex, back + 1, newbackp)
       /\ nsplit' = nsplit + 1
       /\ hist' = ClipHist("split", hist.total + 1, hist.pair + 1, <<>>)
       /\ UNCHANGED front
       /\ IF nsplit + 1 = MAX_SPLITS
          THEN ClipReturn(FALSE)
          ELSE UNCHANGED <<pc, result>>

\* The new primitive is put after the back primitive.  g1 is groups with the
\* caches filled so far, ins = [ok, group] what group_insert_primitive gives.
SplitInserted(g1, ins, newbackp) ==
  IF ~ins.ok
  THEN /\ groups' = [g1 EXCEPT ![BackIndex + 1] = ins.group]
       /\ ClipReturn(FALSE)
       /\ hist' = ClipHist("no_memory", hist.total, hist.pair, <<>>)
       /\ UNCHANGED <<nsplit, front>>
  ELSE /\ groups' = WithPrimitive([g1 EXCEPT ![BackIndex + 1] = ins.group],
                                  BackIndex, back + 1, newbackp)
       /\ nsplit' = nsplit + 1
       /\ hist' = ClipHist("split", hist.total + 1, hist.pair + 1, <<>>)
       /\ IF nsplit + 1 = MAX_SPLITS
          THEN /\ ClipReturn(FALSE)
               /\ UNCHANGED front
          ELSE /\ front' = IF FrontIndex = BackIndex
                           THEN front + 1 ELSE front
               /\ UNCHANGED <<pc, result>>

\* the asserts hold, or do nothing: g1 is groups with the caches filled so far
SplitInsert(g1, newbackp, ins_ok) ==
  SplitInserted(g1,
                group_insert_primitive(g1[BackIndex + 1], back + 1, ins_ok),
                newbackp)

\* primitive_clip split the back primitive: clip is its result and c1 and c2
\* are what primitive_coplanar gives in the two asserts, which a build
\* without NDEBUG evaluates; ins_ok says whether group_insert_primitive can
\* allocate
SplitAsserted(gs, clip, ins_ok, c1, c2) ==
  /\ varray' = clip.va
  /\ split' = TRUE
  /\ IF ndebug
     THEN SplitInsert(WithFrontBack(gs, clip.clipper, clip.primitive),
                      clip.out, ins_ok)
     ELSE IF ~(c1.coplanar /\ c2.coplanar)
     THEN /\ groups' = WithFrontBack(gs, c1.p, c2.q)
          /\ pc' = "aborted"
          /\ hist' = ClipHist("assert", hist.total, hist.pair, <<>>)
          /\ UNCHANGED <<nsplit, front, result>>
     ELSE SplitInsert(WithFrontBack(gs, c1.p, c2.q), c2.p, ins_ok)
  /\ UNCHANGED <<fg, del>>

\* the second assert is about the back primitive as the first one left it
SplitAssert(gs, clip, ins_ok, c1) ==
  SplitAsserted(gs, clip, ins_ok, c1,
                primitive_coplanar(clip.out, c1.q, clip.va))

AfterSplit(gs, clip, ins_ok) ==
  SplitAssert(gs, clip, ins_ok,
              primitive_coplanar(clip.clipper, clip.primitive, clip.va))

\* One iteration of the do-while loop of clip_group_vs_group.  eq is what
\* primitive_equal(frontp, backp) gives, ct what primitive_contains(frontp,
\* backp) gives and clip what primitive_clip(backp, frontp) gives.
DoWhileStep(eq, ct, clip, ins_ok) ==
  /\ pc = "do_while"
  /\ IF eq THEN Covered(groups)
     ELSE IF ct.contains THEN Covered(WithFrontBack(groups, ct.q, ct.p))
     ELSE IF ~clip.ok
     THEN /\ varray' = clip.va
          /\ groups' = WithFrontBack(groups, clip.clipper, clip.primitive)
          /\ split' = clip.split
          /\ IF clip.aborted
             THEN pc' = "aborted" /\ UNCHANGED result
             ELSE ClipReturn(FALSE)
          /\ hist' = ClipHist("clip_failed", hist.total, hist.pair, <<>>)
          /\ UNCHANGED <<fg, front, nsplit, del>>
     ELSE IF clip.split
     THEN AfterSplit(groups, clip, ins_ok)
     ELSE /\ varray' = clip.va
          /\ groups' = WithFrontBack(groups, clip.clipper, clip.primitive)
          /\ split' = FALSE
          /\ front' = front + 1
          /\ pc' = "front_loop"
          /\ hist' = ClipHist("no_split", hist.total, hist.pair, <<>>)
          /\ UNCHANGED <<fg, nsplit, del, result>>
  /\ UNCHANGED <<group_order, bg, back, plane, ndel, ndebug>>

\* primitive_clip works on the primitives as primitive_contains left them
DoWhileClip(eq, ct, alloc_ok, ins_ok) ==
  DoWhileStep(eq, ct,
              primitive_clip(ct.p, ct.q, varray, plane, primitive_init,
                             FALSE, alloc_ok, ndebug),
              ins_ok)

DoWhile ==
  \E alloc_ok, ins_ok \in BOOLEAN :
    DoWhileClip(primitive_equal(FrontP, BackP),
                primitive_contains(FrontP, BackP, varray, plane),
                alloc_ok, ins_ok)

\* FgLoop without the ++back that ends an iteration of the loop over the back
\* primitives
FgLoopNoAdvance ==
  /\ pc = "fg_loop"
  /\ IF ~del /\ (fg < Len(group_order))
     THEN IF group_order[fg + 1] = group_order[bg + 1]
          THEN /\ fg' = fg + 1
               /\ UNCHANGED <<pc, front, back, ndel>>
          ELSE /\ front' = 0
               /\ pc' = "clip_group_vs_group"
               /\ UNCHANGED <<fg, back, ndel>>
     ELSE /\ IF del
             THEN ndel' = ndel + 1 /\ back' = back
             ELSE ndel' = ndel /\ back' = back
          /\ pc' = "clip_group"
          /\ UNCHANGED <<fg, front>>
  /\ hist' = ClipHist("fg_loop", hist.total, 0, <<>>)
  /\ UNCHANGED <<varray, groups, group_order, bg, plane, nsplit, del, split,
                 result, ndebug>>

\* FgLoop without the --back that follows the deletion of the back primitive
FgLoopSkipsMoved ==
  /\ pc = "fg_loop"
  /\ IF ~del /\ (fg < Len(group_order))
     THEN IF group_order[fg + 1] = group_order[bg + 1]
          THEN /\ fg' = fg + 1
               /\ UNCHANGED <<pc, front, back, ndel>>
          ELSE /\ front' = 0
               /\ pc' = "clip_group_vs_group"
               /\ UNCHANGED <<fg, back, ndel>>
     ELSE /\ ndel' = IF del THEN ndel + 1 ELSE ndel
          /\ back' = back + 1
          /\ pc' = "clip_group"
          /\ UNCHANGED <<fg, front>>
  /\ hist' = ClipHist("fg_loop", hist.total, 0, <<>>)
  /\ UNCHANGED <<varray, groups, group_order, bg, plane, nsplit, del, split,
                 result, ndebug>>

\* the loop over the front groups of clip_group and the end of an iteration
\* of its loop over the back primitives
FgLoop ==
  /\ pc = "fg_loop"
  /\ IF ~del /\ (fg < Len(group_order))
     THEN IF group_order[fg + 1] = group_order[bg + 1]
          THEN /\ fg' = fg + 1
               /\ UNCHANGED <<pc, front, back, ndel>>
          ELSE /\ front' = 0
               /\ pc' = "clip_group_vs_group"
               /\ UNCHANGED <<fg, back, ndel>>
     ELSE /\ IF del
             THEN ndel' = ndel + 1 /\ back' = back
             ELSE ndel' = ndel /\ back' = back + 1
          /\ pc' = "clip_group"
          /\ UNCHANGED <<fg, front>>
  /\ hist' = ClipHist("fg_loop", hist.total, 0, <<>>)
  /\ UNCHANGED <<varray, groups, group_order, bg, plane, nsplit, del, split,
                 result, ndebug>>

-----------------------------------------------------------------------------
(* The vertex pool driven by a client: any sequence of add_vertex, set_used, *)
(* find_duplicates and renumber calls.                                       *)

\* most vertices a client adds
MaxVertices == 3

\* The coordinates a client adds.  0.0006 and 0.0012 are each within
\* MAX_FLT_ERR of their neighbour but 0 and 0.0012 are not.
PoolCoords ==
  { <<Zero, One, Zero>>,
    <<Q(3, 5000), Zero, Zero>>,
    <<Q(3, 5000), One, Zero>>,
    <<Q(3, 2500), One, Zero>> }

\* indices of the marked vertices
MarkedSet(va) == {v \in 0..(va.nvertices - 1) : va.vertices[v + 1].marked}

\* no vertex has a dup link
DupsClear(va) == \A v \in 1..va.nvertices : va.vertices[v].dup = -1

\* hist of a pool run: the last call, its argument and return value, the
\* number of find_duplicates calls so far (2 standing for two or more), where
\* the run is in the sequence populate; find_duplicates; renumber, and, after
\* a find_duplicates, the marks and links that call started from
PoolHist(op, arg, ret, nfd, phase, pre_marked, pre_clear) ==
  [op |-> op, arg |-> arg, ret |-> ret, nfd |-> nfd, phase |-> phase,
   pre_marked |-> pre_marked, pre_clear |-> pre_clear]

ClipVarsIdle ==
  /\ groups = <<>>
  /\ group_order = <<>>
  /\ bg = 0 /\ back = 0 /\ fg = 0 /\ front = 0
  /\ plane = [x |-> 0, y |-> 1, z |-> 2]
  /\ nsplit = 0 /\ ndel = 0
  /\ del = FALSE /\ split = FALSE
  /\ result = TRUE
  /\ ndebug = TRUE

PoolInit ==
  /\ varray = EmptyVertexArray
  /\ pc = "pool"
  /\ hist = PoolHist("init", 0, 0, 0, "populating", {}, TRUE)
  /\ ClipVarsIdle

PoolUnchanged ==
  UNCHANGED <<groups, group_order, pc, bg, back, fg, front, plane,
              nsplit, ndel, del, split, result, ndebug>>

PoolAddVertex ==
  /\ pc = "pool"
  /\ varray.nvertices < MaxVertices
  /\ \E coords \in PoolCoords, ok \in BOOLEAN :
       LET r == vertex_array_add_vertex(varray, coords, ok)
       IN  /\ varray' = r.va
           /\ hist' = PoolHist("add_vertex", 0, r.v, hist.nfd,
                               IF hist.phase = "populating"
                               THEN "populating" ELSE "other",
                               {}, TRUE)
  /\ PoolUnchanged

PoolSetUsed ==
  /\ pc = "pool"
  /\ \E n \in 0..varray.nvertices :
       /\ varray' = vertex_array_set_used(varray, n)
       /\ hist' = PoolHist("set_used", n, 0, hist.nfd,
                           IF hist.phase = "populating"
                           THEN "populating" ELSE "other",
                           {}, TRUE)
  /\ PoolUnchanged

PoolFindDuplicates ==
  /\ pc = "pool"
  /\ \E sorted \in SortedOrders(varray), ok \in BOOLEAN :
       LET r == vertex_array_find_duplicates(varray, sorted, ok)
       IN  /\ varray' = r.va
           /\ hist' = PoolHist("find_duplicates", 0, r.n,
                               IF hist.nfd < 2 THEN hist.nfd + 1 ELSE 2,
                               IF hist.phase = "populating" /\ r.n >= 0
                               THEN "deduped" ELSE "other",
                               MarkedSet(varray), DupsClear(varray))
  /\ PoolUnchanged

PoolRenumber ==
  /\ pc = "pool"
  /\ LET r == vertex_array_renumber(varray)
     IN  /\ varray' = r.va
         /\ hist' = PoolHist("renumber", 0, r.next_id, hist.nfd,
                             IF hist.phase = "deduped"
                             THEN "renumbered" ELSE "other",
                             IF hist.phase = "deduped"
                             THEN hist.pre_marked ELSE {},
                             TRUE)
  /\ PoolUnchanged

PoolNext ==
  \/ PoolAddVertex
  \/ PoolSetUsed
  \/ PoolFindDuplicates
  \/ PoolRenumber

PoolSpec == PoolInit /\ [][PoolNext]_vars

-----------------------------------------------------------------------------
(* A client that builds one polygon and a line and calls primitive_split *)

\* the integer n as a Coord
I(n) == <<n, 1>>

\* the point (x, y) of the plane z = 0
XY(x, y) == <<x, y, Zero>>

\* the pool after adding the vertices cs[i..] (vertex_array_add_vertex)
RECURSIVE AddVertices(_, _, _)
AddVertices(va, cs, i) ==
  IF i > Len(cs) THEN va
  ELSE AddVertices(vertex_array_add_vertex(va, cs[i], TRUE).va, cs, i + 1)

\* the primitive after adding the sides vs[i..] (primitive_add_side)
RECURSIVE AddSides(_, _, _)
AddSides(primitive, vs, i) ==
  IF i > Len(vs) THEN primitive
  ELSE AddSides(primitive_add_side(primitive, vs[i]).primitive, vs, i + 1)

\* a primitive as a client builds it
MakePrimitive(vs, colour, id) ==
  primitive_set_id(primitive_set_colour(AddSides(primitive_init, vs, 1),
                                        colour), id)

\* The polygons that are split: a square, a triangle, and a quadrilateral
\* 0.003 wide whose top edge crosses y = 0 within MAX_FLT_ERR of both its ends.
SplitPolygons ==
  { <<XY(I(0), I(0)), XY(I(2), I(0)), XY(I(2), I(2)), XY(I(0), I(2))>>,
    <<XY(I(0), I(0)), XY(I(2), I(0)), XY(I(0), I(2))>>,
    <<XY(I(0), Q(1, 5000)), XY(Q(3, 1000), Q(-9, 10000)),
      XY(Q(3, 1000), I(-1)), XY(I(0), I(-1))>> }

\* the points a dividing line is drawn through
SplitPoints ==
  { XY(I(-1), I(0)), XY(I(1), I(0)), XY(I(1), I(-1)), XY(I(1), I(1)),
    XY(I(-1), I(1)), XY(I(1), I(3)), XY(I(3), I(1)), XY(I(-1), I(-1)) }

SplitHist(op, a, b, before, ok, sp, aborted) ==
  [op |-> op, a |-> a, b |-> b, before |-> before,
   ok |-> ok, split |-> sp, aborted |-> aborted]

\* the state before the call: the polygon primitive, whose plane has been
\* looked for, and the dividing line through the last two vertices of va
SplitReady(n, va, fp) ==
  /\ varray = va
  /\ groups = << [EmptyGroup EXCEPT !.nalloc = 8, !.nprimitives = 2,
                    !.primitives = <<fp.primitive, primitive_init>>] >>
  /\ plane = fp.plane
  /\ hist = SplitHist("init", n, n + 1, fp.primitive, TRUE, FALSE, FALSE)
  /\ pc = "split_call"
  /\ ndebug \in BOOLEAN
  /\ group_order = <<0>>
  /\ bg = 0 /\ back = 0 /\ fg = 0 /\ front = 0
  /\ nsplit = 0 /\ ndel = 0
  /\ del = FALSE /\ split = FALSE
  /\ result = TRUE

SplitScene(n, va) ==
  SplitReady(n, va,
             primitive_find_plane(MakePrimitive([i \in 1..n |-> i - 1], 7, 3),
                                  va))

SplitInit ==
  \E poly \in SplitPolygons, c, d \in SplitPoints :
    /\ c # d
    /\ SplitScene(Len(poly), AddVertices(EmptyVertexArray, poly \o <<c, d>>, 1))

\* primitive_split returns r
SplitReturn(r) ==
  /\ pc = "split_call"
  /\ varray' = r.va
  /\ groups' = [groups EXCEPT ![1].primitives = <<r.primitive, r.out>>]
  /\ split' = r.split
  /\ result' = r.ok
  /\ hist' = SplitHist("split", hist.a, hist.b, hist.before,
                       r.ok, r.split, r.aborted)
  /\ pc' = "split_done"
  /\ UNCHANGED <<group_order, bg, back, fg, front, plane, nsplit, ndel, del,
                 ndebug>>

\* primitive_split(&primitives[0], a, b, varray, plane, &primitives[1], &split)
SplitCall ==
  \E alloc_ok \in BOOLEAN :
    SplitReturn(primitive_split(group_get_primitive(groups[1], 0),
                                hist.a, hist.b, varray, plane,
                                group_get_primitive(groups[1], 1),
                                alloc_ok, ndebug))

SplitNext == SplitCall

SplitSpec == SplitInit /\ [][SplitNext]_vars

-----------------------------------------------------------------------------
(* Properties of primitive_split, under SplitSpec *)

\* C5: whenever primitive_split returns with the split flag set, the polygon
\* written back to the input primitive and the new polygon both have at least
\* 3 sides.
SplitGivesPolygons ==
  (pc = "split_done" /\ hist.ok /\ hist.split)
  => /\ primitive_get_num_sides(group_get_primitive(groups[1], 0)) >= 3
     /\ primitive_get_num_sides(group_get_primitive(groups[1], 1)) >= 3

-----------------------------------------------------------------------------
(* A client that builds a scene of polygons on a 3 x 3 grid of vertices and *)
(* calls clip_polygons                                                       *)

\* most primitives in a scene
MaxPrimitives == 2

\* Vertex 3 * y + x is the point (x, y) of the plane z = 0, for x, y in 0..2;
\* vertices 9..12 are the corners of the unit square of the plane z = 1.
SceneVertices ==
  [v \in 1..9 |-> <<I((v - 1) % 3), I((v - 1) \div 3), Zero>>]
    \o << <<I(0), I(0), One>>, <<I(1), I(0), One>>,
          <<I(1), I(1), One>>, <<I(0), I(1), One>> >>

\* The primitives of a scene, as the vertices of their sides: the square of
\* side 2, the same square starting from another corner and the same square
\* facing the other way, unit squares, the right half of the big square, a
\* triangle that is half of it, a unit square in another plane, a line and
\* three points on a line.
SceneShapes ==
  { <<0, 2, 8, 6>>, <<2, 8, 6, 0>>, <<6, 8, 2, 0>>,
    <<0, 1, 4, 3>>, <<4, 5, 8, 7>>, <<1, 2, 8, 7>>,
    <<0, 2, 6>>, <<9, 10, 11, 12>>, <<0, 8>>, <<0, 1, 2>> }

\* the plot orders handed to clip_polygons
SceneOrders == { <<0>>, <<0, 1>>, <<1, 0>>, <<0, 1, 0>> }

ShapeSeqs == UNION { [1..k -> SceneShapes] : k \in 0..MaxPrimitives }

\* the group after adding primitives with the sides shapes[i..], with ids
\* counted from id (group_add_primitive, primitive_add_side)
RECURSIVE AddPrimitives(_, _, _, _)
AddPrimitives(group, shapes, i, id) ==
  IF i > Len(shapes) THEN group
  ELSE LET added == group_add_primitive(group, TRUE).group
       IN  AddPrimitives(
             [added EXCEPT !.primitives[added.nprimitives] =
                             MakePrimitive(shapes[i], Len(shapes[i]), id)],
             shapes, i + 1, id + 1)

Init ==
  \E s0, s1 \in ShapeSeqs, order \in SceneOrders :
    /\ Len(s0) + Len(s1) <= MaxPrimitives
    /\ varray = AddVertices(EmptyVertexArray, SceneVertices, 1)
    /\ groups = << AddPrimitives(EmptyGroup, s0, 1, 0),
                   AddPrimitives(EmptyGroup, s1, 1, Len(s0)) >>
    /\ group_order = order
    /\ pc = "clip_polygons"
    /\ bg = 0 /\ back = 0 /\ fg = 0 /\ front = 0
    /\ plane = [x |-> 0, y |-> 1, z |-> 2]
    /\ nsplit = 0 /\ ndel = 0
    /\ del = FALSE /\ split = FALSE
    /\ result = TRUE
    /\ ndebug \in BOOLEAN
    /\ hist = ClipHist("call", 0, 0, <<>>)

Next ==
  \/ ClipPolygonsLoop
  \/ ClipGroupLoop
  \/ ClipGroupVsGroup
  \/ FrontLoop
  \/ DoWhile
  \/ FgLoop

Spec == Init /\ [][Next]_vars

-----------------------------------------------------------------------------
(* clip_polygons with geometric predicates that answer anything.  The loops *)
(* of Clip.c run as above, but what primitive_find_plane, primitive_coplanar, *)
(* primitive_equal, primitive_contains, primitive_clip and the allocator     *)
(* return is chosen freely at every call.                                    *)

\* The predicates answer freely while the call has made fewer than OracleFree
\* splits; from then on every primitive_clip splits, which takes the count of
\* the back group to MAX_SPLITS.
OracleFree == 2

\* the sides of every primitive of these scenes
OracleShape == <<0, 2, 6>>

OracleInit ==
  \E n0, n1 \in 0..MaxPrimitives, order \in SceneOrders :
    /\ n0 + n1 <= MaxPrimitives
    /\ varray = AddVertices(EmptyVertexArray, SceneVertices, 1)
    /\ groups = << AddPrimitives(EmptyGroup, [i \in 1..n0 |-> OracleShape],
                                 1, 0),
                   AddPrimitives(EmptyGroup, [i \in 1..n1 |-> OracleShape],
                                 1, n0) >>
    /\ group_order = order
    /\ pc = "clip_polygons"
    /\ bg = 0 /\ back = 0 /\ fg = 0 /\ front = 0
    /\ plane = [x |-> 0, y |-> 1, z |-> 2]
    /\ nsplit = 0 /\ ndel = 0
    /\ del = FALSE /\ split = FALSE
    /\ result = TRUE
    /\ ndebug \in BOOLEAN
    /\ hist = ClipHist("call", 0, 0, <<>>)

\* primitive_find_plane answers has_normal
OracleFindPlane ==
  \E has_normal \in BOOLEAN :
    FindPlaneStep([has_normal |-> has_normal, plane |-> plane,
                   primitive |-> BackP])

\* primitive_coplanar answers coplanar
OracleFrontLoop ==
  \E coplanar \in BOOLEAN :
    FrontStep([coplanar |-> coplanar, p |-> FrontP, q |-> BackP])

\* what primitive_clip can return: <<ok, split, aborted>>.  It returns false
\* without a split, true with or without one, or an assert of primitive_split
\* stops a build without NDEBUG.
OracleClips ==
  { <<TRUE, FALSE, FALSE>>, <<TRUE, TRUE, FALSE>>, <<FALSE, FALSE, FALSE>> }
    \cup (IF ndebug THEN {} ELSE { <<FALSE, TRUE, TRUE>> })

\* primitive_equal answers eq, primitive_contains answers contains and
\* primitive_clip answers c; the new primitive of a split is a copy of the
\* back primitive
OracleDoWhile ==
  \E eq, contains, ins_ok \in BOOLEAN, c \in OracleClips :
    /\ (hist.total >= OracleFree)
       => (~eq /\ ~contains /\ ins_ok /\ c = <<TRUE, TRUE, FALSE>>)
    /\ DoWhileStep(eq,
                   [contains |-> contains, q |-> FrontP, p |-> BackP],
                   [ok |-> c[1], split |-> c[2], aborted |-> c[3],
                    va |-> varray, primitive |-> BackP, clipper |-> FrontP,
                    out |-> BackP],
                   ins_ok)

OracleNext ==
  \/ ClipPolygonsLoop
  \/ ClipGroupLoop
  \/ OracleFindPlane
  \/ OracleFrontLoop
  \/ OracleDoWhile
  \/ FgLoop

OracleSpec == OracleInit /\ [][OracleNext]_vars

-----------------------------------------------------------------------------
(* Properties of clip_polygons, under Spec *)

\* what a client can read of a primitive: everything but the cached bounding
\* box
Visible(p) ==
  [colour |-> p.colour, id |-> p.id, nsides |-> p.nsides, sides |-> p.sides,
   normal |-> p.normal, has_normal |-> p.has_normal]

VisibleGroup(group) ==
  [n \in 1..group.nprimitives |-> Visible(group.primitives[n])]

\* seq without its element n, counted from 0
WithoutElement(seq, n) == SubSeq(seq, 1, n) \o SubSeq(seq, n + 2, Len(seq))

\* the last step found the back primitive covered by a front primitive
\* against which it had not been split
CoveredUnsplit == (hist.ev = "covered") /\ (hist.pair = 0)

\* the back primitive is gone from its group, no split was counted and no
\* vertex was added
BackRemoved(pre) ==
  /\ VisibleGroup(groups[pre.bgi + 1])
       = WithoutElement(VisibleGroup(pre.groups[pre.bgi + 1]), pre.back)
  /\ nsplit = pre.nsplit
  /\ varray.nvertices = pre.nvertices

\* the front primitive is as it was; it is one place down when the back
\* primitive was taken out of its group
FrontKept(pre) ==
  Visible(group_get_primitive(groups[pre.fgi + 1],
                              IF pre.fgi = pre.bgi THEN pre.front - 1
                              ELSE pre.front))
    = Visible(group_get_primitive(pre.groups[pre.fgi + 1], pre.front))

\* C4 as stated: when a back primitive is covered by a front primitive before
\* any split was made against that front, the back primitive is removed from
\* its group, no split is counted, no vertex is added, and the front primitive
\* and its group are unchanged.
CoveredLeavesFrontGroup ==
  CoveredUnsplit
  => /\ BackRemoved(hist.pre)
     /\ FrontKept(hist.pre)
     /\ VisibleGroup(groups[hist.pre.fgi + 1])
          = VisibleGroup(hist.pre.groups[hist.pre.fgi + 1])

\* C4, amended: when a back primitive is covered by a front primitive before
\* any split was made against that front, the back primitive is removed from
\* its group, no split is counted, no vertex is added and the front primitive
\* is unchanged; every other group, the front group among them when it is not
\* the back group, is unchanged.
CoveredRemovesOnlyBack ==
  CoveredUnsplit
  => /\ BackRemoved(hist.pre)
     /\ FrontKept(hist.pre)
     /\ \A g \in 1..Len(groups) :
          (g # hist.pre.bgi + 1)
          => VisibleGroup(groups[g]) = VisibleGroup(hist.pre.groups[g])

\* the covered back primitive was in the same group as the front primitive
CoveredInSameGroup == CoveredUnsplit /\ (hist.pre.fgi = hist.pre.bgi)

\* the points of the plane at which polygons are compared: two in every cell
\* of the grid, one on each side of the diagonal that an edge can run along
SamplePoints ==
  { <<Q(4 * i + k, 4), Q(4 * j + k, 4)>> : i, j \in 0..1, k \in {1, 3} }

\* does the edge from a to b cross the ray from pt towards greater x
CrossesRay(a, b, pt) ==
  /\ CGt(a[2], pt[2]) # CGt(b[2], pt[2])
  /\ CLt(pt[1], CAdd(a[1], CDiv(CMul(CSub(pt[2], a[2]), CSub(b[1], a[1])),
                                CSub(b[2], a[2]))))

\* is pt, which is on no edge, inside the polygon: its ray crosses an odd
\* number of edges
Covers(primitive, va, pt) ==
  Cardinality({ s \in 1..primitive.nsides :
                  CrossesRay(vertex_array_get_coords(va, primitive.sides[s]),
                             vertex_array_get_coords(
                               va, primitive.sides[(s % primitive.nsides) + 1]),
                             pt) }) % 2 = 1

\* the two polygons have a point of the plane in common
Overlap(p, q, va) == \E pt \in SamplePoints : Covers(p, va, pt) /\ Covers(q, va, pt)

\* both primitives have normals, the normals are equal and the primitives are
\* in one plane
SamePlane(p, q, va) ==
  LET np == primitive_make_normal(p, va)
      nq == primitive_make_normal(q, va)
  IN  /\ np.has_normal /\ nq.has_normal
      /\ vector_equal(np.norm, nq.norm)
      /\ coord_equal(
           vector_dot(np.norm,
                      vector_sub(vertex_array_get_coords(va, p.sides[1]),
                                 vertex_array_get_coords(va, q.sides[1]))),
           Zero)

\* the places <<group, index>> of the primitives
Places == { <<g, n>> \in (0..(Len(groups) - 1)) \X (0..31) :
              n < groups[g + 1].nprimitives }

PrimitiveAt(pl) == group_get_primitive(groups[pl[1] + 1], pl[2])

\* f is in front of b: later in the same group, or in another group that has
\* a later position in the plot order
InFront(f, b) ==
  \/ (f[1] = b[1]) /\ (f[2] > b[2])
  \/ /\ f[1] # b[1]
     /\ \E i, j \in 1..Len(group_order) :
          (i < j) /\ (group_order[i] = b[1]) /\ (group_order[j] = f[1])

\* the group of the primitive at pl is in the plot order
Listed(pl) == \E i \in 1..Len(group_order) : group_order[i] = pl[1]

\* the primitive at b is not equal to, contained in or overlapped by the one
\* at f
Apart(f, b) ==
  /\ ~primitive_equal(PrimitiveAt(f), PrimitiveAt(b))
  /\ ~primitive_contains(PrimitiveAt(f), PrimitiveAt(b), varray,
                         plane).contains
  /\ ~Overlap(PrimitiveAt(f), PrimitiveAt(b), varray)

-----------------------------------------------------------------------------
(* Properties of clip_polygons whatever the predicates answer, under *)
(* OracleSpec                                                         *)

\* clip_polygons has returned, or an assert has stopped the program
Terminated == pc \in {"done", "aborted"}

\* pc is inside an iteration of the loop over the back primitives
InIteration ==
  pc \in {"clip_group_vs_group", "front_loop", "do_while", "fg_loop"}

\* pc is inside a call of clip_group_vs_group
InCall == pc \in {"clip_group_vs_group", "front_loop", "do_while"}

\* What is left to do, one number per loop from the outermost to the
\* innermost: the positions of the plot order not yet clipped; the primitives
\* of the back group not yet clipped, a split leaving one primitive more to
\* clip but one split less to make before the cap; the front groups not yet
\* looked at for the back primitive; the primitives of the front group not
\* yet looked at; and the steps left before the front primitive has been
\* looked at.
Rank ==
  << 2 * (Len(group_order) - bg) + (IF pc = "clip_polygons" THEN 1 ELSE 0),
     IF pc = "clip_polygons" \/ Terminated THEN 0
     ELSE 2 * (group_get_num_primitives(BackGroup) - back
               + (IF del /\ InIteration THEN 1 ELSE 0)
               + 2 * (MAX_SPLITS - nsplit))
          + (IF pc = "clip_group" THEN 1 ELSE 0),
     IF InIteration
     THEN 2 * (Len(group_order) - fg) + (IF pc = "fg_loop" THEN 1 ELSE 0)
     ELSE 0,
     IF InCall THEN group_get_num_primitives(FrontGroup) - front ELSE 0,
     IF pc = "clip_group_vs_group" THEN 2
     ELSE IF pc = "front_loop" THEN 1 ELSE 0 >>

\* a comes before b in the lexicographic order
LexLess(a, b) ==
  \E i \in 1..Len(a) :
    /\ a[i] < b[i]
    /\ \A j \in 1..(i - 1) : a[j] = b[j]

\* C2: clip_polygons terminates whatever the groups, the plot order and the
\* answers of the geometric predicates are.  Every step of its loops either
\* ends the call, which returns true or false unless an assert stops the
\* program in a build without NDEBUG, or takes Rank, a tuple of natural
\* numbers, to one that comes before it in the lexicographic order; no run
\* can do the latter for ever.
ClipLoopsDecreaseRank ==
  [][ Terminated'
      \/ /\ LexLess(Rank', Rank)
         /\ \A i \in 1..Len(Rank') : Rank'[i] >= 0 ]_vars

\* clip_polygons returned true after it split a primitive and deleted another
ReturnedAfterSplitsAndDeletions ==
  /\ pc = "done" /\ result
  /\ hist.total > 0
  /\ ndel > 0

\* the splits made since the clip_group call for the current back group began
GroupSplits == hist.total - hist.base

-----------------------------------------------------------------------------
(* Properties of the vertex pool, under PoolSpec *)

\* The vertex at the end of n's dup chain, -1 when the chain is a cycle.
RECURSIVE CanonicalWalk(_, _, _)
CanonicalWalk(va, n, hops) ==
  IF va.vertices[n + 1].dup < 0 THEN n
  ELSE IF hops >= va.nvertices THEN -1
       ELSE CanonicalWalk(va, va.vertices[n + 1].dup, hops + 1)

Canonical(va, n) == CanonicalWalk(va, n, 0)

\* C6: after set_used(i) on a vertex i that has a dup link, the vertex at the
\* end of i's dup chain (the one with dup = -1) is marked.
SetUsedMarksCanonical ==
  (/\ hist.op = "set_used"
   /\ HasVertex(varray, hist.arg)
   /\ varray.vertices[hist.arg + 1].dup >= 0
   /\ Canonical(varray, hist.arg) >= 0)
  => vertex_array_is_used(varray, Canonical(varray, hist.arg))

DupChainsOneHop(va) ==
  \A v \in 1..va.nvertices :
    va.vertices[v].dup >= 0 => va.vertices[va.vertices[v].dup + 1].dup = -1

CompactIds(va, K) ==
  /\ Cardinality(MarkedSet(va)) = K
  /\ \A v \in MarkedSet(va) :
       va.vertices[v + 1].id = Cardinality({w \in MarkedSet(va) : w < v})

\* C8: immediately after any renumber call the marked vertices, taken in
\* insertion order, have ids 0, 1, ..., K-1 and renumber returned K.
RenumberCompact == (hist.op = "renumber") => CompactIds(varray, hist.ret)

\* get_id maps the marked vertices without a dup link one-to-one onto 0..K-1
IdBijection(va, K) ==
  LET C == {v \in MarkedSet(va) : va.vertices[v + 1].dup = -1}
  IN  /\ Cardinality(C) = K
      /\ {vertex_array_get_id(va, v) : v \in C} = 0..(K - 1)

\* the number of classes of equal coordinates among the vertices in S
NumClasses(va, S) ==
  Cardinality({ {w \in S : vector_equal(va.vertices[v + 1].coords,
                                        va.vertices[w + 1].coords)} : v \in S })

\* vertices of the pool with equal coordinates have the same coordinates
ExactClasses(va) ==
  \A v, w \in 1..va.nvertices :
    vector_equal(va.vertices[v].coords, va.vertices[w].coords)
      => va.vertices[v].coords = va.vertices[w].coords

\* C9 as stated: on a freshly populated pool, after find_duplicates and then
\* renumber returning K, get_id is a bijection from the marked vertices with
\* dup = -1 onto 0..K-1 and K is the number of coordinate classes among the
\* vertices that were marked.
DedupRenumberCountsClasses ==
  (hist.phase = "renumbered")
  => /\ IdBijection(varray, hist.ret)
     /\ hist.ret = NumClasses(varray, hist.pre_marked)

\* C9 amended: the bijection holds, and K is the number of coordinate classes
\* among the vertices that were marked when any two vertices of the pool whose
\* coordinates are equal within MAX_FLT_ERR have exactly the same coordinates.
DedupRenumberCountsExactClasses ==
  (hist.phase = "renumbered")
  => /\ IdBijection(varray, hist.ret)
     /\ ExactClasses(varray)
          => hist.ret = NumClasses(varray, hist.pre_marked)

\* two marked vertices with the same coordinates were merged and numbered
DedupRenumberCountsExactClassesCase ==
  /\ hist.phase = "renumbered"
  /\ ExactClasses(varray)
  /\ hist.ret >= 1
  /\ \E v \in hist.pre_marked :
       /\ varray.vertices[v + 1].dup >= 0
       /\ varray.vertices[v + 1].dup \in hist.pre_marked
  /\ Cardinality(hist.pre_marked) > hist.ret

\* C10: after find_duplicates on a pool whose dup links were all -1, no vertex
\* with dup >= 0 is marked, and a vertex with dup = -1 is marked iff it or a
\* vertex now linked to it was marked before the call.
FindDuplicatesMovesMarks ==
  (hist.op = "find_duplicates" /\ hist.pre_clear)
  => /\ \A v \in 1..varray.nvertices :
          varray.vertices[v].dup >= 0 => ~varray.vertices[v].marked
     /\ \A v \in 0..(varray.nvertices - 1) :
          varray.vertices[v + 1].dup = -1
            => (varray.vertices[v + 1].marked
                  <=> \/ v \in hist.pre_marked
                      \/ \E w \in hist.pre_marked :
                           varray.vertices[w + 1].dup = v)

\* a marked duplicate handed its mark to an original that was not marked
FindDuplicatesMovesMarksCase ==
  /\ hist.op = "find_duplicates"
  /\ hist.pre_clear
  /\ \E w \in hist.pre_marked :
       /\ varray.vertices[w + 1].dup >= 0
       /\ varray.vertices[w + 1].dup \notin hist.pre_marked
       /\ varray.vertices[varray.vertices[w + 1].dup + 1].marked

\* i comes immediately before j in an order that compare_vertices accepts:
\* no third vertex lies strictly between them
AdjacentSorted(va, i, j) ==
  /\ i # j
  /\ compare_vertices(va, i, j) <= 0
  /\ ~\E k \in 0..(va.nvertices - 1) :
        /\ compare_vertices(va, i, k) < 0
        /\ compare_vertices(va, k, j) < 0

\* C11: after a find_duplicates call that succeeded on a pool without dup
\* links, any two vertices that are adjacent in the sorted order and have
\* equal coordinates (within MAX_FLT_ERR in all three dimensions) end at the
\* same canonical vertex, so get_id gives the same id for both.
AdjacentEqualsLinked ==
  (hist.op = "find_duplicates" /\ hist.ret >= 0 /\ hist.pre_clear)
  => \A i, j \in 0..(varray.nvertices - 1) :
       (/\ AdjacentSorted(varray, i, j)
        /\ vector_equal(varray.vertices[i + 1].coords,
                        varray.vertices[j + 1].coords))
       => /\ Canonical(varray, j) = Canonical(varray, i)
          /\ vertex_array_get_id(varray, j) = vertex_array_get_id(varray, i)

-----------------------------------------------------------------------------
(* A client that builds two primitives and compares them with               *)
(* primitive_equal, or compares one with a reversed copy of itself          *)

\* most sides of a compared primitive
MaxEqualSides == 4

\* the vertex indices of the compared primitives
EqualVertices == 0..3

EqualSides == UNION { [1..k -> EqualVertices] : k \in 0..MaxEqualSides }

\* hist of a comparison: the last call, whether the second primitive is a
\* reversed copy of the first, and what primitive_equal returned for
\* (first, second) and for (second, first)
EqualHist(op, reversed, ret, rev) ==
  [op |-> op, reversed |-> reversed, ret |-> ret, rev |-> rev]

EqualInit ==
  \E ps, qs \in EqualSides :
    /\ varray = EmptyVertexArray
    /\ groups = << [EmptyGroup EXCEPT !.nalloc = 8, !.nprimitives = 2,
                      !.primitives = <<MakePrimitive(ps, 1, 0),
                                       MakePrimitive(qs, 2, 1)>>] >>
    /\ hist = EqualHist("init", FALSE, FALSE, FALSE)
    /\ pc = "equal"
    /\ group_order = <<0>>
    /\ bg = 0 /\ back = 0 /\ fg = 0 /\ front = 0
    /\ plane = [x |-> 0, y |-> 1, z |-> 2]
    /\ nsplit = 0 /\ ndel = 0
    /\ del = FALSE /\ split = FALSE
    /\ result = TRUE
    /\ ndebug = TRUE

EqualUnchanged ==
  UNCHANGED <<varray, group_order, pc, bg, back, fg, front, plane,
              nsplit, ndel, del, split, result, ndebug>>

\* primitives[1] = primitives[0]; primitive_reverse_sides(&primitives[1])
EqualReverseCopy ==
  /\ pc = "equal"
  /\ hist.op = "init"
  /\ groups' = [groups EXCEPT ![1].primitives[2] =
                  primitive_reverse_sides(group_get_primitive(groups[1], 0))]
  /\ hist' = EqualHist("reverse_copy", TRUE, FALSE, FALSE)
  /\ EqualUnchanged

\* primitive_equal(&primitives[0], &primitives[1]) and
\* primitive_equal(&primitives[1], &primitives[0])
EqualCall ==
  /\ pc = "equal"
  /\ hist.op # "equal"
  /\ hist' = EqualHist("equal", hist.reversed,
                       primitive_equal(group_get_primitive(groups[1], 0),
                                       group_get_primitive(groups[1], 1)),
                       primitive_equal(group_get_primitive(groups[1], 1),
                                       group_get_primitive(groups[1], 0)))
  /\ UNCHANGED groups
  /\ EqualUnchanged

EqualNext == EqualReverseCopy \/ EqualCall

EqualSpec == EqualInit /\ [][EqualNext]_vars

-----------------------------------------------------------------------------
(* Properties of primitive_equal, under EqualSpec *)

\* C12: primitive_equal is symmetric: when it returns true for (p, q) it
\* returns true for (q, p).
EqualSymmetric == (hist.op = "equal") => (hist.ret => hist.rev)

\* the sides of the primitive are distinct vertices
DistinctSides(primitive) ==
  \A s, t \in 1..primitive.nsides :
    s # t => primitive.sides[s] # primitive.sides[t]

\* C13 as stated: primitive_equal(p, r) is false when p has more than 2 sides
\* and r is a copy of p reversed by primitive_reverse_sides.
ReversedNotEqual ==
  (/\ hist.op = "equal"
   /\ hist.reversed
   /\ primitive_get_num_sides(group_get_primitive(groups[1], 0)) > 2)
  => ~hist.ret

\* C13 amended: primitive_equal(p, r) is false when p has more than 2 sides,
\* all of them distinct vertices, and r is a copy of p reversed by
\* primitive_reverse_sides.
ReversedDistinctNotEqual ==
  (/\ hist.op = "equal"
   /\ hist.reversed
   /\ primitive_get_num_sides(group_get_primitive(groups[1], 0)) > 2
   /\ DistinctSides(group_get_primitive(groups[1], 0)))
  => ~hist.ret

\* a quadrilateral of four distinct vertices was compared with its reversed
\* copy
ReversedDistinctCompared ==
  /\ hist.op = "equal"
  /\ hist.reversed
  /\ primitive_get_num_sides(group_get_primitive(groups[1], 0)) = 4
  /\ DistinctSides(group_get_primitive(groups[1], 0))
  /\ group_get_primitive(groups[1], 1).sides[1]
       = group_get_primitive(groups[1], 0).sides[4]
  /\ ~hist.ret

-----------------------------------------------------------------------------
(* A client that builds one primitive over the vertices of the grid and     *)
(* then edits it with primitive_init, primitive_add_side,                   *)
(* primitive_delete_all and primitive_reverse_sides, looks for its plane    *)
(* and its bounding box, and splits it along a line of the grid with        *)
(* primitive_split                                                          *)

\* most calls the client makes on the primitive it has built
MaxPrimCalls == 3

\* The primitives the client builds, as the vertices of their sides: nothing,
\* a point, a line, three points on a line, a triangle, the square of side 2,
\* and polygons of MaxSides - 1 and MaxSides sides that go round the triangle
\* 0, 2, 8 and then stay at vertex 6.
PrimShapes ==
  { <<>>, <<0>>, <<0, 8>>, <<0, 1, 2>>, <<0, 2, 6>>, <<0, 2, 8, 6>>,
    <<0, 2, 8>> \o [n \in 1..(MaxSides - 4) |-> 6],
    <<0, 2, 8>> \o [n \in 1..(MaxSides - 3) |-> 6] }

\* the vertex numbers handed to primitive_add_side
PrimSides == {-1, 0, 6}

\* the dividing lines, each through two vertices of the grid
PrimLines == { <<1, 7>>, <<3, 5>>, <<1, 5>> }

\* hist of an edit: the last call, its argument and return value, the
\* primitive before the call, the split flag and the new polygon of
\* primitive_split (a local of the client), and the number of calls so far
PrimHist(op, arg, ret, pre, sp, out, calls) ==
  [op |-> op, arg |-> arg, ret |-> ret, pre |-> pre, split |-> sp,
   out |-> out, calls |-> calls]

\* the primitive that is edited
PrimP == group_get_primitive(groups[1], 0)

PrimInit ==
  \E shape \in PrimShapes :
    /\ varray = AddVertices(EmptyVertexArray, SceneVertices, 1)
    /\ groups = << [EmptyGroup EXCEPT !.nalloc = 8, !.nprimitives = 1,
                      !.primitives = <<MakePrimitive(shape, 7, 3)>>] >>
    /\ hist = PrimHist("build", 0, 0, primitive_init, FALSE, primitive_init, 0)
    /\ pc = "prim"
    /\ ndebug \in BOOLEAN
    /\ group_order = <<0>>
    /\ bg = 0 /\ back = 0 /\ fg = 0 /\ front = 0
    /\ plane = [x |-> 0, y |-> 1, z |-> 2]
    /\ nsplit = 0 /\ ndel = 0
    /\ del = FALSE /\ split = FALSE
    /\ result = TRUE

PrimUnchanged ==
  UNCHANGED <<group_order, bg, back, fg, front, plane, nsplit, ndel, del,
              split, result, ndebug>>

\* the call op(arg) returned ret and left the primitive as p
PrimEdited(op, arg, ret, p) ==
  /\ pc = "prim"
  /\ hist.calls < MaxPrimCalls
  /\ groups' = [groups EXCEPT ![1].primitives[1] = p]
  /\ hist' = PrimHist(op, arg, ret, PrimP, FALSE, primitive_init,
                      hist.calls + 1)
  /\ UNCHANGED <<varray, pc>>
  /\ PrimUnchanged

\* primitive_init(&primitive)
PrimInitCall == PrimEdited("init", 0, 0, primitive_init)

PrimAdded(v, r) == PrimEdited("add_side", v, r.side, r.primitive)

\* primitive_add_side(&primitive, v)
PrimAddSide ==
  \E v \in PrimSides : PrimAdded(v, primitive_add_side(PrimP, v))

\* primitive_delete_all(&primitive)
PrimDeleteAll == PrimEdited("delete_all", 0, 0, primitive_delete_all(PrimP))

\* primitive_reverse_sides(&primitive)
PrimReverseSides ==
  PrimEdited("reverse_sides", 0, 0, primitive_reverse_sides(PrimP))

\* primitive_find_plane(&primitive, varray, &plane), which caches the normal
PrimFindPlane ==
  PrimEdited("find_plane", 0, 0, primitive_find_plane(PrimP, varray).primitive)

\* primitive_contains(&primitive, &primitive, varray, plane), which caches the
\* bounding box
PrimContains ==
  PrimEdited("contains", 0, 0,
             primitive_contains(PrimP, PrimP, varray, plane).q)

\* primitive_split returns r
PrimSplitReturn(ln, r) ==
  /\ pc = "prim"
  /\ hist.calls < MaxPrimCalls
  /\ varray' = r.va
  /\ groups' = [groups EXCEPT ![1].primitives[1] = r.primitive]
  /\ hist' = PrimHist("split", ln[1], IF r.ok THEN 1 ELSE 0, PrimP, r.split,
                      r.out, hist.calls + 1)
  /\ pc' = IF r.aborted THEN "aborted" ELSE "prim"
  /\ PrimUnchanged

\* Primitive out; primitive_init(&out);
\* primitive_split(&primitive, a, b, varray, plane, &out, &split)
PrimSplit ==
  \E ln \in PrimLines, alloc_ok \in BOOLEAN :
    PrimSplitReturn(ln, primitive_split(PrimP, ln[1], ln[2], varray, plane,
                                        primitive_init, alloc_ok, ndebug))

PrimNext ==
  \/ PrimInitCall
  \/ PrimAddSide
  \/ PrimDeleteAll
  \/ PrimReverseSides
  \/ PrimFindPlane
  \/ PrimContains
  \/ PrimSplit

PrimSpec == PrimInit /\ [][PrimNext]_vars

-----------------------------------------------------------------------------
(* Properties of the primitive's sides and caches, under PrimSpec *)

\* the sides of a primitive fit its array
SidesFit(primitive) ==
  /\ primitive.nsides >= 0
  /\ primitive.nsides <= MaxSides
  /\ Len(primitive.sides) = primitive.nsides

\* C14: after any sequence of init, add_side, delete_all, reverse_sides and
\* split the primitive (and the polygon split off it) has between 0 and 15
\* sides, and add_side on a primitive of 15 sides, or with a negative vertex
\* number, returns -1 and leaves the sides and their count as they were.
SidesBounded ==
  /\ SidesFit(PrimP)
  /\ SidesFit(hist.out)
  /\ (/\ hist.op = "add_side"
      /\ (hist.pre.nsides = MaxSides \/ hist.arg < 0))
     => /\ hist.ret = -1
        /\ PrimP.sides = hist.pre.sides
        /\ PrimP.nsides = hist.pre.nsides

\* add_side was refused on a primitive of 15 sides
FullPrimitiveRefused ==
  /\ hist.op = "add_side"
  /\ hist.arg >= 0
  /\ hist.pre.nsides = MaxSides
  /\ hist.ret = -1
  /\ PrimP.nsides = MaxSides

\* the last call wrote the sides of the primitive
SidesWritten ==
  \/ hist.op = "add_side" /\ hist.ret >= 0
  \/ hist.op = "delete_all"
  \/ hist.op = "reverse_sides" /\ PrimP.sides # hist.pre.sides
  \/ hist.op = "split" /\ hist.ret = 1 /\ hist.split

-----------------------------------------------------------------------------
(* A client that inserts primitives into one group and deletes them, and    *)
(* gives primitives of the group an id to tell them apart                   *)

\* most primitives the client keeps in the group
MaxGroupPrims == 9

\* hist of a group run: the last call, its argument, whether it returned a
\* primitive, whether the allocator would satisfy a request, and the group
\* before the call
GroupHist(op, n, ret, alloc_ok, pre) ==
  [op |-> op, n |-> n, ret |-> ret, alloc_ok |-> alloc_ok, pre |-> pre]

GroupInit ==
  /\ varray = EmptyVertexArray
  /\ groups = <<EmptyGroup>>
  /\ hist = GroupHist("init", 0, FALSE, TRUE, EmptyGroup)
  /\ pc = "group"
  /\ group_order = <<0>>
  /\ bg = 0 /\ back = 0 /\ fg = 0 /\ front = 0
  /\ plane = [x |-> 0, y |-> 1, z |-> 2]
  /\ nsplit = 0 /\ ndel = 0
  /\ del = FALSE /\ split = FALSE
  /\ result = TRUE
  /\ ndebug = TRUE

GroupUnchanged ==
  UNCHANGED <<varray, group_order, pc, bg, back, fg, front, plane,
              nsplit, ndel, del, split, result, ndebug>>

\* group_insert_primitive returned r
GroupInserted(n, alloc_ok, r) ==
  /\ groups' = <<r.group>>
  /\ hist' = GroupHist("insert", n, r.ok, alloc_ok, groups[1])
  /\ GroupUnchanged

\* group_insert_primitive(&group, n)
GroupInsert ==
  /\ pc = "group"
  /\ groups[1].nprimitives < MaxGroupPrims
  /\ \E n \in -1..(groups[1].nprimitives + 1), alloc_ok \in BOOLEAN :
       GroupInserted(n, alloc_ok,
                     group_insert_primitive(groups[1], n, alloc_ok))

\* group_delete_primitive(&group, n)
GroupDelete ==
  /\ pc = "group"
  /\ \E n \in -1..groups[1].nprimitives :
       /\ groups' = <<group_delete_primitive(groups[1], n)>>
       /\ hist' = GroupHist("delete", n, FALSE, TRUE, groups[1])
  /\ GroupUnchanged

\* primitive_set_id(group_get_primitive(&group, n), 1)
GroupSetId ==
  /\ pc = "group"
  /\ \E n \in 0..(groups[1].nprimitives - 1) :
       /\ primitive_get_id(group_get_primitive(groups[1], n)) # 1
       /\ groups' = <<WithPrimitive(groups, 0, n,
                        primitive_set_id(group_get_primitive(groups[1], n),
                                         1))[1]>>
       /\ hist' = GroupHist("set_id", n, FALSE, TRUE, groups[1])
  /\ GroupUnchanged

GroupNext == GroupInsert \/ GroupDelete \/ GroupSetId

GroupSpec == GroupInit /\ [][GroupNext]_vars

-----------------------------------------------------------------------------
(* Properties of the group, under GroupSpec *)

-----------------------------------------------------------------------------
(* A client that fills the vertex pool and one group until their storage    *)
(* has to grow, with an allocator that may refuse, and then calls           *)
(* clip_polygons                                                            *)

\* most vertices the client has in the pool before it stops adding
MaxSceneVertices == 17

\* The primitives the client adds, in this order: a triangle whose edges
\* cross the line x = 1 between the vertices of the grid, the right half of
\* the big square, and points.
AllocScene ==
  << <<0, 5, 6>>, <<1, 2, 8, 7>>, <<9>>, <<10>>, <<11>>, <<12>>, <<9>>,
     <<10>>, <<11>> >>

\* hist while the scene is built: the last call, and in pre what it returned,
\* whether the allocator would satisfy a request, and the pool and the groups
\* before the call
AllocHist(ev, ret, alloc_ok) ==
  [ev |-> ev, total |-> 0, pair |-> 0, base |-> 0,
   pre |-> [ret |-> ret, alloc_ok |-> alloc_ok,
            varray |-> varray, groups |-> groups]]

AllocInit ==
  /\ varray = AddVertices(EmptyVertexArray, SceneVertices, 1)
  /\ groups = <<EmptyGroup>>
  /\ group_order = <<0>>
  /\ pc = "build"
  /\ bg = 0 /\ back = 0 /\ fg = 0 /\ front = 0
  /\ plane = [x |-> 0, y |-> 1, z |-> 2]
  /\ nsplit = 0 /\ ndel = 0
  /\ del = FALSE /\ split = FALSE
  /\ result = TRUE
  /\ ndebug \in BOOLEAN
  /\ hist = [ev |-> "init", total |-> 0, pair |-> 0, base |-> 0,
             pre |-> <<>>]

AllocUnchanged ==
  UNCHANGED <<group_order, pc, bg, back, fg, front, plane, nsplit, ndel,
              del, split, result, ndebug>>

\* vertex_array_add_vertex returned r
AllocVertexAdded(alloc_ok, r) ==
  /\ varray' = r.va
  /\ hist' = AllocHist("add_vertex", r.v, alloc_ok)
  /\ UNCHANGED groups
  /\ AllocUnchanged

\* vertex_array_add_vertex(varray, &coords), for a point away from the scene
AllocAddVertex ==
  /\ pc = "build"
  /\ varray.nvertices < MaxSceneVertices
  /\ \E alloc_ok \in BOOLEAN :
       AllocVertexAdded(alloc_ok,
                        vertex_array_add_vertex(
                          varray, <<I(varray.nvertices), I(5), I(5)>>,
                          alloc_ok))

\* group_add_primitive returned r: the client gives the new primitive its
\* sides, an id and a colour
AllocPrimitiveAdded(alloc_ok, r) ==
  /\ groups' = IF r.ok
               THEN <<[r.group EXCEPT !.primitives[r.group.nprimitives] =
                         MakePrimitive(AllocScene[r.group.nprimitives], 5,
                                       r.group.nprimitives)]>>
               ELSE <<r.group>>
  /\ hist' = AllocHist("add_primitive", r.ok, alloc_ok)
  /\ UNCHANGED varray
  /\ AllocUnchanged

\* group_add_primitive(&group) and primitive_add_side for each side
AllocAddPrimitive ==
  /\ pc = "build"
  /\ groups[1].nprimitives < Len(AllocScene)
  /\ \E alloc_ok \in BOOLEAN :
       AllocPrimitiveAdded(alloc_ok,
                           group_add_primitive(groups[1], alloc_ok))

\* clip_polygons(varray, groups, group_order, 1, false)
AllocClipCall ==
  /\ pc = "build"
  /\ pc' = "clip_polygons"
  /\ hist' = ClipHist("call", 0, 0, <<>>)
  /\ UNCHANGED <<varray, groups, group_order, bg, back, fg, front, plane,
                 nsplit, ndel, del, split, result, ndebug>>

AllocNext ==
  \/ AllocAddVertex
  \/ AllocAddPrimitive
  \/ AllocClipCall
  \/ ClipPolygonsLoop
  \/ ClipGroupLoop
  \/ ClipGroupVsGroup
  \/ FrontLoop
  \/ DoWhile
  \/ FgLoop

AllocSpec == AllocInit /\ [][AllocNext]_vars

\* count, capacity and contents of a group and of the pool agree
GroupFits(group) ==
  /\ 0 <= group.nprimitives
  /\ group.nprimitives <= group.nalloc
  /\ Len(group.primitives) = group.nprimitives

PoolFits(va) ==
  /\ 0 <= va.nvertices
  /\ va.nvertices <= va.nalloc
  /\ Len(va.vertices) = va.nvertices

\* the last call needed the container to grow and the allocator refused
GrowthRefused ==
  /\ hist.ev \in {"add_vertex", "add_primitive"}
  /\ ~hist.pre.alloc_ok
  /\ \/ hist.ev = "add_vertex"
        /\ hist.pre.varray.nvertices = hist.pre.varray.nalloc
     \/ hist.ev = "add_primitive"
        /\ hist.pre.groups[1].nprimitives = hist.pre.groups[1].nalloc

\* C17: when a growth allocation fails, group_insert_primitive returns null
\* and vertex_array_add_vertex returns -1, and the container's count,
\* capacity and contents are what they were before the call; a clip_polygons
\* call that is stopped by such a failure returns false; and at all times
\* every group has 0 <= nprimitives <= nalloc and the pool has
\* 0 <= nvertices <= nalloc.
AllocFailureLeavesContainers ==
  /\ GrowthRefused =>
       /\ hist.ev = "add_primitive" => hist.pre.ret = FALSE
       /\ hist.ev = "add_vertex" => hist.pre.ret = -1
       /\ groups = hist.pre.groups
       /\ varray = hist.pre.varray
  /\ (hist.ev \in {"no_memory", "clip_failed"} /\ pc # "aborted") =>
       (pc = "done" /\ ~result)
  /\ \A g \in 1..Len(groups) : GroupFits(groups[g])
  /\ PoolFits(varray)

\* clip_polygons gave up because the full group could not grow to take the
\* polygon split off the triangle
ClipStoppedByFullGroup ==
  /\ pc = "done"
  /\ ~result
  /\ hist.ev = "no_memory"
  /\ groups[1].nprimitives = groups[1].nalloc
  /\ groups[1].nprimitives > 0

-----------------------------------------------------------------------------
(* Primitives without a normal in clip_polygons: a client whose scenes hold *)
(* points, lines and polygons that begin with three vertices on one line    *)

\* The primitives of these scenes: a point, a line, three points on a line,
\* the square of side 2 with a fifth vertex in the middle of its first edge,
\* the same square begun one vertex later, the plain square, two unit
\* squares, the right half of the big square and a unit square in another
\* plane.
FlatShapes ==
  { <<4>>, <<0, 8>>, <<0, 1, 2>>, <<0, 1, 2, 8, 6>>, <<1, 2, 8, 6, 0>>,
    <<0, 2, 8, 6>>, <<0, 1, 4, 3>>, <<4, 5, 8, 7>>, <<1, 2, 8, 7>>,
    <<9, 10, 11, 12>> }

FlatSeqs == UNION { [1..k -> FlatShapes] : k \in 0..MaxPrimitives }

FlatInit ==
  \E s0, s1 \in FlatSeqs, order \in SceneOrders :
    /\ Len(s0) + Len(s1) <= MaxPrimitives
    /\ varray = AddVertices(EmptyVertexArray, SceneVertices, 1)
    /\ groups = << AddPrimitives(EmptyGroup, s0, 1, 0),
                   AddPrimitives(EmptyGroup, s1, 1, Len(s0)) >>
    /\ group_order = order
    /\ pc = "clip_polygons"
    /\ bg = 0 /\ back = 0 /\ fg = 0 /\ front = 0
    /\ plane = [x |-> 0, y |-> 1, z |-> 2]
    /\ nsplit = 0 /\ ndel = 0
    /\ del = FALSE /\ split = FALSE
    /\ result = TRUE
    /\ ndebug \in BOOLEAN
    /\ hist = ClipHist("call", 0, 0, <<>>)

FlatSpec == FlatInit /\ [][Next]_vars

\* the primitive has a normal: at least 3 sides, and the first three vertices
\* span a plane
HasNormal(primitive) == primitive_make_normal(primitive, varray).has_normal

\* the step splits or deletes the back primitive
SplitsOrDeletes == hist'.ev \in {"split", "covered"}

\* C18: a primitive without a normal (fewer than 3 sides, or its first three
\* vertices on one line) is skipped: no step splits or deletes a back
\* primitive that has no normal, and no step splits or deletes a back
\* primitive because of a front primitive that has no normal.
NoNormalSkipped ==
  [][SplitsOrDeletes => (HasNormal(BackP) /\ HasNormal(FrontP))]_vars

\* C18 as the code has it: no step splits or deletes a back primitive that
\* has no normal, and no step splits or deletes a back primitive because of
\* a front primitive with fewer than 3 sides.
NoNormalBackSkipped ==
  [][SplitsOrDeletes =>
       (HasNormal(BackP) /\ primitive_get_num_sides(FrontP) >= 3)]_vars

\* the front primitive of the step that hist.pre describes
PreFrontP ==
  group_get_primitive(hist.pre.groups[hist.pre.fgi + 1], hist.pre.front)

\* a back primitive was deleted because a front polygon without a normal
\* covers it
DeletedBehindFlatFront ==
  /\ hist.ev = "covered"
  /\ primitive_get_num_sides(PreFrontP) >= 3
  /\ ~HasNormal(PreFrontP)

-----------------------------------------------------------------------------
(* A client that makes two primitives and calls primitive_clip or           *)
(* primitive_coplanar with them                                             *)

\* The sides of the two primitives: nothing, a point, lines in the planes
\* z = 0 and z = 1, three points on a line, a polygon that begins with them,
\* squares, the right half of the big square, a triangle whose edges cross
\* the line x = 1 between the vertices of the grid, a unit square in the
\* plane z = 1, and the big square with its last corner repeated to make 14
\* and 15 sides.
PairShapes ==
  { <<>>, <<4>>, <<0, 8>>, <<9, 11>>, <<0, 1, 2>>, <<0, 1, 2, 8, 6>>,
    <<0, 2, 8, 6>>, <<0, 1, 4, 3>>, <<1, 2, 8, 7>>, <<0, 5, 6>>,
    <<9, 10, 11, 12>>,
    <<0, 2, 8>> \o [n \in 1..(MaxSides - 4) |-> 6],
    <<0, 2, 8>> \o [n \in 1..(MaxSides - 3) |-> 6] }

\* the pool with room for three more vertices, and the pool filled up with
\* three vertices away from the scene
PairPools ==
  { AddVertices(EmptyVertexArray, SceneVertices, 1),
    AddVertices(EmptyVertexArray,
                SceneVertices \o << <<I(13), I(5), I(5)>>,
                                    <<I(14), I(5), I(5)>>,
                                    <<I(15), I(5), I(5)>> >>, 1) }

\* hist: the call made, what it returned, what the call with the arguments
\* exchanged returns (primitive_coplanar), whether the allocator would satisfy
\* a request, and the primitives and the pool before the call
PairHist(op, ret, rev, alloc_ok) ==
  [op |-> op, ret |-> ret, rev |-> rev, alloc_ok |-> alloc_ok,
   p |-> group_get_primitive(groups[1], 0),
   q |-> group_get_primitive(groups[1], 1),
   varray |-> varray, plane |-> plane]

PairInit ==
  \E ps, qs \in PairShapes, pool \in PairPools :
    /\ varray = pool
    /\ groups = <<AddPrimitives(EmptyGroup, <<ps, qs>>, 1, 0)>>
    /\ group_order = <<0>>
    /\ pc = "pair"
    /\ bg = 0 /\ back = 0 /\ fg = 0 /\ front = 1
    /\ plane = [x |-> 0, y |-> 1, z |-> 2]
    /\ nsplit = 0 /\ ndel = 0
    /\ del = FALSE /\ split = FALSE
    /\ result = TRUE
    /\ ndebug \in BOOLEAN
    /\ hist = [op |-> "init"]

PairUnchanged ==
  UNCHANGED <<group_order, bg, back, fg, front, nsplit, ndel, del, result,
              ndebug>>

\* primitive_find_plane(p, varray, &plane); the plane is left alone when p
\* has no normal
PairFoundPlane(fp) ==
  /\ groups' = WithPrimitive(groups, 0, 0, fp.primitive)
  /\ plane' = IF fp.has_normal THEN fp.plane ELSE plane
  /\ pc' = "plane"
  /\ hist' = PairHist("find_plane", fp.has_normal, fp.has_normal, TRUE)
  /\ UNCHANGED <<varray, split>>
  /\ PairUnchanged

PairFindPlane ==
  /\ pc = "pair"
  /\ PairFoundPlane(primitive_find_plane(group_get_primitive(groups[1], 0),
                                         varray))

\* primitive_clip returned r
PairClipped(r, alloc_ok) ==
  /\ varray' = r.va
  /\ groups' = WithPrimitive(WithPrimitive(groups, 0, 0, r.primitive),
                             0, 1, r.clipper)
  /\ split' = r.split
  /\ pc' = IF r.aborted THEN "aborted" ELSE "called"
  /\ hist' = PairHist("clip", r.ok, r.ok, alloc_ok)
  /\ UNCHANGED plane
  /\ PairUnchanged

\* every vertex of p and of q has the same z: the two are parallel to the
\* plane of x and y, and so is every polygon cut from them, whose normal is
\* then a rational vector
Level(p, q) ==
  \A s, t \in {p.sides[n] : n \in 1..p.nsides}
              \cup {q.sides[n] : n \in 1..q.nsides} :
    vertex_array_get_coords(varray, s)[3]
      = vertex_array_get_coords(varray, t)[3]

\* bool split = false; primitive_clip(p, q, varray, plane, &out, &split),
\* for two primitives that are level
PairClip ==
  /\ pc = "plane"
  /\ Level(group_get_primitive(groups[1], 0),
           group_get_primitive(groups[1], 1))
  /\ \E alloc_ok \in BOOLEAN :
       PairClipped(primitive_clip(group_get_primitive(groups[1], 0),
                                  group_get_primitive(groups[1], 1),
                                  varray, plane, primitive_init, FALSE,
                                  alloc_ok, ndebug),
                   alloc_ok)

\* primitive_coplanar(p, q, varray) returned pq; qp is what
\* primitive_coplanar(q, p, varray) returns for the same primitives
PairCompared(pq, qp) ==
  /\ groups' = WithPrimitive(WithPrimitive(groups, 0, 0, pq.p), 0, 1, pq.q)
  /\ pc' = "called"
  /\ hist' = PairHist("coplanar", pq.coplanar, qp.coplanar, TRUE)
  /\ UNCHANGED <<varray, plane, split>>
  /\ PairUnchanged

PairCoplanar ==
  /\ pc = "pair"
  /\ PairCompared(primitive_coplanar(group_get_primitive(groups[1], 0),
                                     group_get_primitive(groups[1], 1),
                                     varray),
                  primitive_coplanar(group_get_primitive(groups[1], 1),
                                     group_get_primitive(groups[1], 0),
                                     varray))

PairNext ==
  \/ PairFindPlane
  \/ PairClip
  \/ PairCoplanar

PairSpec == PairInit /\ [][PairNext]_vars

\* primitive_clip was called and returned (no assert stopped the program)
ClipReturned == hist.op = "clip" /\ pc = "called"

\* primitive_clip was called and returned false
ClipRefused == ClipReturned /\ ~hist.ret

\* the call could not get a vertex from a full pool, or the polygon it was to
\* split had no room for another side
ClipFatal ==
  \/ ~hist.alloc_ok /\ hist.varray.nvertices = hist.varray.nalloc
  \/ hist.p.nsides >= MaxSides

\* one of the two primitives has no sides, and so no bounding box
ClipNoBBox == hist.p.nsides = 0 \/ hist.q.nsides = 0

\* the bounding boxes of the two primitives overlap in the plane
ClipBBoxesOverlap ==
  /\ vector_xy_less_than(primitive_make_bbox(hist.q, hist.varray).low,
                         primitive_make_bbox(hist.p, hist.varray).high,
                         hist.plane)
  /\ vector_xy_less_than(primitive_make_bbox(hist.p, hist.varray).low,
                         primitive_make_bbox(hist.q, hist.varray).high,
                         hist.plane)

\* C19: primitive_clip returns false only on a fatal error (a vertex could
\* not be allocated, or a polygon would exceed MAX_SIDES sides), and true in
\* every other case, a degenerate front or back primitive included.
ClipFalseOnlyWhenFatal == ClipRefused => ClipFatal

\* C19 as the code has it: primitive_clip returns false on a fatal error,
\* when one of the primitives has no sides, and when the clipper is a point
\* or a line whose bounding box overlaps that of the polygon; in every other
\* case it returns true.
ClipFalseWhenFatalOrDegenerate ==
  /\ ClipRefused =>
       \/ ClipFatal
       \/ ClipNoBBox
       \/ hist.q.nsides < 3 /\ ClipBBoxesOverlap
  /\ (ClipReturned /\ ClipNoBBox) => ~hist.ret
  /\ (ClipReturned /\ ~ClipNoBBox /\ hist.q.nsides < 3
        /\ ClipBBoxesOverlap) => ~hist.ret
  /\ (ClipReturned /\ ~ClipNoBBox /\ ~ClipBBoxesOverlap) => hist.ret

\* primitive_clip refused to clip a square against a line that crosses it,
\* with room in the pool
LineClipperRefused ==
  /\ ClipRefused
  /\ hist.q.nsides = 2
  /\ hist.p.nsides = 4
  /\ hist.alloc_ok
  /\ hist.varray.nvertices < hist.varray.nalloc

\* the primitive had a normal to find when primitive_coplanar was called
HadNormal(primitive) ==
  primitive_make_normal(primitive, hist.varray).has_normal

\* every vertex of flat is within MAX_FLT_ERR of the plane through the first
\* vertex of poly that is orthogonal to the normal of poly
InPlaneOf(flat, poly) ==
  \A s \in 1..flat.nsides :
    coord_equal(
      coord_abs(vector_dot(
        primitive_make_normal(poly, hist.varray).norm,
        vector_sub(vertex_array_get_coords(hist.varray, poly.sides[1]),
                   vertex_array_get_coords(hist.varray, flat.sides[s])))),
      Zero)

\* C20: when exactly one of p and q has a normal, primitive_coplanar(p, q)
\* is true if and only if every vertex of the one without a normal is within
\* MAX_FLT_ERR of the plane given by the normal and the first vertex of the
\* other, and primitive_coplanar(q, p) returns the same.
CoplanarOneNormal ==
  /\ (hist.op = "coplanar" /\ HadNormal(hist.p) /\ ~HadNormal(hist.q)) =>
       /\ hist.ret <=> InPlaneOf(hist.q, hist.p)
       /\ hist.rev = hist.ret
  /\ (hist.op = "coplanar" /\ ~HadNormal(hist.p) /\ HadNormal(hist.q)) =>
       /\ hist.ret <=> InPlaneOf(hist.p, hist.q)
       /\ hist.rev = hist.ret

-----------------------------------------------------------------------------
(* primitive_split one iteration of its loop at a time: a client that       *)
(* builds a primitive and a line and calls primitive_split                  *)

\* The primitives that are split: those of SplitPolygons, a line, a hexagon
\* that the line y = 1 meets in its vertices 0 and 3 and that the line x = 1
\* cuts into two quadrilaterals, a rectangle with a notch cut into its top
\* edge, four of whose edges cross the line y = 1, and the square of side 2
\* with eleven more vertices along its left edge, which has MaxSides sides.
LoopPolygons ==
  SplitPolygons
    \cup { <<XY(I(0), I(0)), XY(I(2), I(2))>>,
           <<XY(I(0), I(0)), XY(I(2), I(0)), XY(I(2), I(2)), XY(I(0), I(2))>>
             \o [k \in 1..(MaxSides - 4) |-> XY(I(0), Q(12 - k, 6))],
           <<XY(I(0), I(1)), XY(I(1), I(0)), XY(I(2), I(0)), XY(I(3), I(1)),
             XY(I(2), I(2)), XY(I(1), I(2))>>,
           <<XY(I(0), I(0)), XY(I(3), I(0)), XY(I(3), I(2)), XY(I(2), I(2)),
             XY(I(2), Q(1, 2)), XY(I(1), Q(1, 2)), XY(I(1), I(2)),
             XY(I(0), I(2))>> }

\* hist: the step made; the line; the primitive and the pool when
\* primitive_split was called; s, the number of iterations made; r, the
\* locals of the loop [ok, state, last_side, tmp, out, va]; prev, the locals
\* before the last iteration; hit, whether the line met the edge of the last
\* iteration; hits, for how many iterations it did; tr, the sides that went
\* to *out (run) and to tmp (kept) at the end of an iteration and the
\* vertices at the points where the line met an edge (cuts); and what the
\* function returned
LoopHist(op, s, r, prev, hit, hits, ok, sp) ==
  [op |-> op, a |-> hist.a, b |-> hist.b, before |-> hist.before,
   pool |-> hist.pool, s |-> s, r |-> r, prev |-> prev, hit |-> hit,
   hits |-> hits, ok |-> ok, split |-> sp, tr |-> hist.tr]

\* the state before the call, as in SplitReady
LoopReady(n, va, fp) ==
  /\ varray = va
  /\ groups = << [EmptyGroup EXCEPT !.nalloc = 8, !.nprimitives = 2,
                    !.primitives = <<fp.primitive, primitive_init>>] >>
  /\ plane = fp.plane
  /\ hist = [op |-> "init", a |-> n, b |-> n + 1, before |-> fp.primitive,
             pool |-> va, s |-> 0,
             r |-> SplitStart(fp.primitive, va, primitive_init),
             prev |-> SplitStart(fp.primitive, va, primitive_init),
             hit |-> FALSE, hits |-> 0, ok |-> TRUE, split |-> FALSE,
             tr |-> [run |-> <<>>, kept |-> <<>>, cuts |-> <<>>]]
  /\ pc = "split_call"
  /\ ndebug \in BOOLEAN
  /\ split \in BOOLEAN
  /\ group_order = <<0>>
  /\ bg = 0 /\ back = 0 /\ fg = 0 /\ front = 0
  /\ nsplit = 0 /\ ndel = 0
  /\ del = FALSE
  /\ result = TRUE

LoopScene(n, va) ==
  LoopReady(n, va,
            primitive_find_plane(MakePrimitive([i \in 1..n |-> i - 1], 7, 3),
                                 va))

LoopInit ==
  \E poly \in LoopPolygons, c, d \in SplitPoints :
    /\ c # d
    /\ LoopScene(Len(poly), AddVertices(EmptyVertexArray, poly \o <<c, d>>, 1))

LoopUnchanged ==
  UNCHANGED <<group_order, bg, back, fg, front, plane, nsplit, ndel, del,
              ndebug>>

\* primitive_split up to its loop
LoopBegin ==
  /\ pc = "split_call"
  /\ pc' = IF primitive_get_num_sides(group_get_primitive(groups[1], 0)) < 3
           THEN "split_end" ELSE "split_loop"
  /\ hist' = LoopHist("begin", 0,
                      SplitStart(group_get_primitive(groups[1], 0), varray,
                                 group_get_primitive(groups[1], 1)),
                      hist.r, FALSE, 0, TRUE, FALSE)
  /\ UNCHANGED <<varray, groups, split, result>>
  /\ LoopUnchanged

\* One iteration of the loop has taken the locals to r1.  The pool and *out
\* belong to the caller and are written as the loop goes; a failure returns
\* false at once.
LoopStepped(r1, hit, side, v) ==
  /\ varray' = r1.va
  /\ groups' = WithPrimitive(groups, 0, 1, r1.out)
  /\ hist' = [LoopHist(IF r1.ok THEN "step" ELSE "return", hist.s + 1, r1,
                       hist.r, hit, hist.hits + (IF hit THEN 1 ELSE 0),
                       r1.ok, FALSE)
              EXCEPT !.tr = [run |-> IF r1.state = "SPLIT_IN_PROGRESS"
                                     THEN Append(hist.tr.run, side)
                                     ELSE hist.tr.run,
                             kept |-> IF r1.state = "SPLIT_IN_PROGRESS"
                                      THEN hist.tr.kept
                                      ELSE Append(hist.tr.kept, side),
                             cuts |-> IF hit THEN Append(hist.tr.cuts, v)
                                      ELSE hist.tr.cuts]]
  /\ IF ~r1.ok
     THEN result' = FALSE /\ pc' = "split_done"
     ELSE /\ UNCHANGED result
          /\ pc' = IF hist.s + 1 < hist.before.nsides
                   THEN "split_loop" ELSE "split_end"
  /\ UNCHANGED split
  /\ LoopUnchanged

\* the vertex at the point where the line meets the edge, when it does: the
\* one found in the pool, or else the one added at its end
LoopCutVertex(hit) ==
  IF ~hit.ok THEN -1
  ELSE IF vertex_array_find_vertex(varray, hit.pt) >= 0
       THEN vertex_array_find_vertex(varray, hit.pt)
       ELSE varray.nvertices

LoopStep ==
  /\ pc = "split_loop"
  /\ \E alloc_ok \in BOOLEAN :
       LoopStepped(
         SplitSide(group_get_primitive(groups[1], 0), hist.a, hist.b, plane,
                   alloc_ok, hist.s, hist.r),
         (hist.r.state # "SPLIT_COMPLETE")
           /\ vertex_array_edge_intersects_line(
                varray, hist.r.last_side,
                primitive_get_side(group_get_primitive(groups[1], 0), hist.s),
                hist.a, hist.b, plane).ok,
         primitive_get_side(group_get_primitive(groups[1], 0), hist.s),
         LoopCutVertex(vertex_array_edge_intersects_line(
                varray, hist.r.last_side,
                primitive_get_side(group_get_primitive(groups[1], 0), hist.s),
                hist.a, hist.b, plane)))

\* primitive_split after its loop gave e = [ok, split, aborted, va, primitive,
\* out]
LoopEnded(e) ==
  /\ varray' = e.va
  /\ groups' = [groups EXCEPT ![1].primitives = <<e.primitive, e.out>>]
  /\ split' = e.split
  /\ IF e.aborted
     THEN pc' = "aborted" /\ UNCHANGED result
     ELSE pc' = "split_done" /\ result' = e.ok
  /\ hist' = LoopHist(IF e.aborted THEN "assert" ELSE "return", hist.s,
                      hist.r, hist.r, FALSE, hist.hits, e.ok, e.split)
  /\ LoopUnchanged

LoopEnd ==
  /\ pc = "split_end"
  /\ LoopEnded(SplitEnd(group_get_primitive(groups[1], 0), hist.r, ndebug))

LoopNext ==
  \/ LoopBegin
  \/ LoopStep
  \/ LoopEnd

LoopSpec == LoopInit /\ [][LoopNext]_vars

SplitRank(state) ==
  IF state = "SPLIT_NONE" THEN 0
  ELSE IF state = "SPLIT_IN_PROGRESS" THEN 1 ELSE 2

\* the edges of the primitive primitive_split was called with that the line
\* meets, each named by the number of the side it ends at
EdgesMet ==
  {s \in 0..(hist.before.nsides - 1) :
     vertex_array_edge_intersects_line(
       hist.pool,
       primitive_get_side(hist.before,
                          IF s = 0 THEN hist.before.nsides - 1 ELSE s - 1),
       primitive_get_side(hist.before, s), hist.a, hist.b, plane).ok}

\* primitive_split returned true
SplitReturnedTrue == pc = "split_done" /\ hist.op = "return" /\ hist.ok

\* C21: during primitive_split the state only advances NONE -> IN_PROGRESS
\* -> COMPLETE, by one step for every edge that meets the line; once the
\* state is COMPLETE it stays so and no vertex is added to the pool; and when
\* the function returns true the split flag is set if and only if the state
\* is COMPLETE, which for a polygon (3 sides or more) is when at least two of
\* its edges meet the line.
SplitStateAdvances ==
  /\ SplitRank(hist.r.state) - SplitRank(hist.prev.state) \in {0, 1}
  /\ (hist.op = "step") =>
       ((SplitRank(hist.r.state) = SplitRank(hist.prev.state) + 1)
          <=> hist.hit)
  /\ (hist.prev.state = "SPLIT_COMPLETE") =>
       /\ hist.r.state = "SPLIT_COMPLETE"
       /\ hist.r.va = hist.prev.va
       /\ ~hist.hit
  /\ SplitReturnedTrue =>
       /\ split <=> (hist.r.state = "SPLIT_COMPLETE")
       /\ split <=> (hist.hits >= 2)
       /\ (hist.before.nsides >= 3) =>
            (split <=> (Cardinality(EdgesMet) >= 2))

\* primitive_split returned true with the flag set for a polygon that the
\* line meets in more than two edges, the last of which was not tested
SplitCompletedEarly ==
  /\ SplitReturnedTrue
  /\ split
  /\ hist.hits = 2
  /\ Cardinality(EdgesMet) > 2

\* primitive_split returned true with the flag set
SplitSucceeded == SplitReturnedTrue /\ split

\* the sequences seq with none, or with one, of the vertices c put in at
\* position i
WithOptional(seq, i, c) ==
  {seq, SubSeq(seq, 1, i - 1) \o <<c>> \o SubSeq(seq, i, Len(seq))}

\* the sides of the retained and of the new polygon after the call
RetainedSides == group_get_primitive(groups[1], 0).sides
NewSides == group_get_primitive(groups[1], 1).sides

\* C22: after a successful split of a polygon of n sides, the sides visited
\* while the state was IN_PROGRESS are one contiguous run of the original
\* sides and are in the new polygon in their order, all other sides are in
\* the retained polygon in their order, the only other entries of the two
\* polygons are the two vertices at the intersections, and the two polygons
\* have between n and n + 4 sides together.
SplitPartitionsSides ==
  SplitSucceeded =>
    /\ Len(hist.tr.cuts) = 2
    /\ \E i \in 1..(hist.before.nsides + 1 - Len(hist.tr.run)) :
         /\ hist.tr.run = SubSeq(hist.before.sides, i,
                                 i + Len(hist.tr.run) - 1)
         /\ hist.tr.kept = SubSeq(hist.before.sides, 1, i - 1)
                             \o SubSeq(hist.before.sides,
                                       i + Len(hist.tr.run),
                                       hist.before.nsides)
         /\ \E first \in WithOptional(hist.tr.run, 1, hist.tr.cuts[1]) :
              NewSides \in WithOptional(first, Len(first) + 1,
                                        hist.tr.cuts[2])
         /\ \E second \in WithOptional(hist.tr.kept, i, hist.tr.cuts[2]) :
              RetainedSides \in WithOptional(second, i, hist.tr.cuts[1])
    /\ Len(RetainedSides) + Len(NewSides) >= hist.before.nsides
    /\ Len(RetainedSides) + Len(NewSides) <= hist.before.nsides + 4

\* a split that put both vertices of intersection into both polygons
SplitAddedFourSides ==
  /\ SplitSucceeded
  /\ Len(RetainedSides) + Len(NewSides) = hist.before.nsides + 4

\* C23: after a successful split of a primitive whose normal was cached when
\* primitive_split was called, the new primitive has the colour and the id of
\* that primitive and has a cached normal, equal to the cached normal of the
\* primitive that was split.
SplitInheritsNormal ==
  (SplitSucceeded /\ hist.before.has_normal) =>
    /\ primitive_get_colour(group_get_primitive(groups[1], 1))
         = primitive_get_colour(hist.before)
    /\ primitive_get_id(group_get_primitive(groups[1], 1))
         = primitive_get_id(hist.before)
    /\ group_get_primitive(groups[1], 1).has_normal
    /\ group_get_primitive(groups[1], 1).normal = hist.before.normal

\* primitive_split returned without a split: true with the flag clear, or
\* false
SplitReturnedUnsplit ==
  /\ pc = "split_done"
  /\ hist.op = "return"
  /\ ~hist.ok \/ ~split

\* C27: when primitive_split returns true with the split flag clear, or
\* returns false, the primitive it was called with has the sides, the number
\* of sides, the colour and the id it had before the call.
UnsplitKeepsPrimitive ==
  SplitReturnedUnsplit =>
    /\ group_get_primitive(groups[1], 0).sides = hist.before.sides
    /\ group_get_primitive(groups[1], 0).nsides = hist.before.nsides
    /\ group_get_primitive(groups[1], 0).colour = hist.before.colour
    /\ group_get_primitive(groups[1], 0).id = hist.before.id

\* primitive_split returned false after the line had met two edges, because
\* the polygon it keeps would have more than MaxSides sides
SplitRefusedSixteenth ==
  /\ pc = "split_done"
  /\ ~hist.ok
  /\ hist.r.state = "SPLIT_COMPLETE"
  /\ hist.before.nsides = MaxSides
  /\ hist.r.tmp.nsides = MaxSides

-----------------------------------------------------------------------------
(* The loop over the back primitives of clip_group, under OracleSpec *)

\* a primitive without what is cached in it
Uncached(primitive) ==
  [id |-> primitive.id, colour |-> primitive.colour,
   nsides |-> primitive.nsides, sides |-> primitive.sides]

\* the back group is as it was, but for what is cached in its primitives
BackKept ==
  \/ BackGroup' = BackGroup
  \/ /\ BackGroup'.nprimitives = BackGroup.nprimitives
     /\ \A n \in 1..BackGroup.nprimitives :
          Uncached(BackGroup'.primitives[n]) = Uncached(BackGroup.primitives[n])

\* the back group loses the primitive at back, and nothing else
BackDeleted ==
  /\ ~del /\ del'
  /\ back' = back
  /\ BackGroup'.nprimitives = BackGroup.nprimitives - 1
  /\ \A n \in 1..BackGroup'.nprimitives :
       Uncached(BackGroup'.primitives[n])
         = Uncached(BackGroup.primitives[IF n <= back THEN n ELSE n + 1])

\* the back group gets a primitive at back + 1; the primitives before back
\* stay where they are and those after it move up by one
PieceInserted ==
  /\ back' = back
  /\ BackGroup'.nprimitives = BackGroup.nprimitives + 1
  /\ \A n \in 1..BackGroup.nprimitives :
       (n # back + 1) =>
         Uncached(BackGroup'.primitives[IF n <= back THEN n ELSE n + 1])
           = Uncached(BackGroup.primitives[n])

\* C24: clip_group skips no primitive of the back group and addresses none
\* out of range.  The back index changes only at the end of an iteration: it
\* stays when the back primitive was deleted, so that the primitive that
\* moved into its place is next, and goes up by one otherwise, so that a piece
\* inserted at back + 1 is next.  The back group changes only by one deletion
\* of the primitive at back, with the count going down by one, or by the
\* insertion of a piece at back + 1.  clip_group_vs_group is never entered
\* with the deleted flag set.
ClipGroupVisitsAll ==
  [][ /\ (pc' = "clip_group_vs_group") => ~del'
      /\ (pc' \in {"clip_group_vs_group", "front_loop", "do_while"}) =>
           HasPrimitive(BackGroup', back')
      /\ (pc' = "do_while") => HasPrimitive(FrontGroup', front')
      /\ (pc = "fg_loop" /\ pc' = "clip_group") =>
           /\ back' = IF del THEN back ELSE back + 1
           /\ groups' = groups
      /\ (pc = "clip_group" /\ pc' = "clip_group_vs_group") =>
           (back' = back /\ groups' = groups)
      /\ (pc \in {"clip_group_vs_group", "front_loop", "do_while"}) =>
           /\ back' = back
           /\ \/ BackKept
              \/ hist'.ev = "covered" /\ BackDeleted
              \/ hist'.ev = "split" /\ PieceInserted
      /\ (pc = "fg_loop" /\ pc' # "clip_group") =>
           (back' = back /\ groups' = groups) ]_vars

\* the first primitive of a group was split and then deleted, and the piece
\* that moved into its place is about to be clipped
PieceMovedIntoPlace ==
  /\ pc = "clip_group_vs_group"
  /\ hist.ev = "clip_group"
  /\ back = 0
  /\ nsplit > 0
  /\ ndel > 0

\* C25: while a back primitive is clipped against its own group the front
\* index is greater than the back index; a split, which puts the new piece at
\* back + 1, is followed by ++front, so that front refers to the front
\* primitive it referred to before and neither to the back primitive nor to
\* the new piece; and primitive_clip is never called with one primitive as
\* front and as back.
FrontStaysAhead ==
  [][ /\ (pc' \in {"front_loop", "do_while"} /\ FrontIndex' = BackIndex') =>
           front' > back'
      /\ (hist'.ev = "split" /\ pc' # "done" /\ FrontIndex = BackIndex) =>
           /\ front' = front + 1
           /\ front' > back' + 1
           /\ Uncached(FrontP') = Uncached(FrontP)
      /\ (hist'.ev = "split" /\ pc' # "done" /\ FrontIndex # BackIndex) =>
           /\ front' = front
           /\ Uncached(FrontP') = Uncached(FrontP)
      /\ (pc' = "do_while") =>
           (FrontIndex' # BackIndex' \/ front' # back') ]_vars

\* the back primitive was split twice against a front primitive of its own
\* group, which is now two places further on
FrontMovedUpTwice ==
  /\ pc = "do_while"
  /\ hist.ev = "split"
  /\ hist.pair = 2
  /\ FrontIndex = BackIndex
  /\ front = back + 3

-----------------------------------------------------------------------------
(* clip_polygons on scenes whose pool is nearly full, so that the vertices of
   a split need the pool to grow: ReturnSpec *)

\* vertices no primitive refers to, which fill the pool up to its capacity
UnusedVertices ==
  << <<I(5), I(5), Zero>>, <<I(6), I(5), Zero>>, <<I(7), I(5), Zero>> >>

\* The primitives of these scenes: a triangle whose edges cross the lines
\* x = 1 and y = 1 between the vertices of the grid, a unit square, the right
\* half of the big square and the big square.
ReturnShapes == { <<0, 5, 6>>, <<4, 5, 8, 7>>, <<1, 2, 8, 7>>, <<0, 2, 8, 6>> }

ReturnSeqs == UNION { [1..k -> ReturnShapes] : k \in 0..MaxPrimitives }

ReturnInit ==
  \E s0, s1 \in ReturnSeqs, order \in SceneOrders,
     unused \in 0..Len(UnusedVertices) :
    /\ Len(s0) + Len(s1) <= MaxPrimitives
    /\ varray = AddVertices(EmptyVertexArray,
                            SceneVertices \o SubSeq(UnusedVertices, 1, unused),
                            1)
    /\ groups = << AddPrimitives(EmptyGroup, s0, 1, 0),
                   AddPrimitives(EmptyGroup, s1, 1, Len(s0)) >>
    /\ group_order = order
    /\ pc = "clip_polygons"
    /\ bg = 0 /\ back = 0 /\ fg = 0 /\ front = 0
    /\ plane = [x |-> 0, y |-> 1, z |-> 2]
    /\ nsplit = 0 /\ ndel = 0
    /\ del = FALSE /\ split = FALSE
    /\ result = TRUE
    /\ ndebug \in BOOLEAN
    /\ hist = ClipHist("call", 0, 0, <<>>)

ReturnSpec == ReturnInit /\ [][Next]_vars

\* the ids and colours found in a group
IdColours(group) ==
  { <<primitive_get_id(group.primitives[n]),
      primitive_get_colour(group.primitives[n])>> : n \in 1..group.nprimitives }

\* C26: when clip_polygons has returned, true or false, every primitive of a
\* group has the id and the colour of a primitive that was in that group
\* before the call.  No step of the clipping brings an id and colour into a
\* group that the group did not hold before the step, so none is there at the
\* return that was not there at the call.
ClipKeepsIdColours ==
  [][ \A g \in 1..Len(groups) :
        IdColours(groups'[g]) \subseteq IdColours(groups[g]) ]_vars

\* clip_polygons has returned false after a split; one group holds the
\* primitive it held, the other holds pieces with one id and colour
PiecesShareIdColour ==
  /\ pc = "done"
  /\ ~result
  /\ \E g, h \in 1..Len(groups) :
       /\ groups[g].nprimitives = 1
       /\ groups[h].nprimitives >= 2
       /\ Cardinality(IdColours(groups[h])) = 1
       /\ IdColours(groups[g]) # IdColours(groups[h])

-----------------------------------------------------------------------------
(* The dup links, under PoolSpec *)

\* C28: vertex_array_get_id terminates for every index in every pool state
\* that can be reached: the dup links form no cycle, also when
\* find_duplicates has run more than once and qsort has left vertices with
\* identical coordinates in either order.
GetIdTerminates ==
  \A n \in 0..(varray.nvertices - 1) : GetIdWalk(varray, n, 0).halts

-----------------------------------------------------------------------------
(* A client that also asks a group for capacity: CapacitySpec *)

\* the largest number of primitives the client asks room for
MaxRequest == 20

\* group_alloc_primitives(&group, n)
GroupAlloc ==
  /\ pc = "group"
  /\ \E n \in -1..MaxRequest, alloc_ok \in BOOLEAN :
       /\ groups' = <<group_alloc_primitives(groups[1], n, alloc_ok)>>
       /\ hist' = GroupHist("alloc", n, FALSE, alloc_ok, groups[1])
  /\ GroupUnchanged

CapacityNext == GroupInsert \/ GroupDelete \/ GroupAlloc

CapacitySpec == GroupInit /\ [][CapacityNext]_vars

-----------------------------------------------------------------------------
(* ObjFile.c, and a client that marks, removes duplicates, renumbers and
   writes the vertices: OutputSpec *)

\* The loop of output_vertices from vertex v on: the vertices it writes, in
\* the order in which it writes them (every write succeeds).
RECURSIVE OutputVerticesFrom(_, _)
OutputVerticesFrom(va, v) ==
  IF v >= vertex_array_get_num_vertices(va) THEN <<>>
  ELSE IF ~vertex_array_is_used(va, v) THEN OutputVerticesFrom(va, v + 1)
       ELSE <<v>> \o OutputVerticesFrom(va, v + 1)

output_vertices(va) == OutputVerticesFrom(va, 0)

\* the vertex number written for side v of a primitive; positive is
\* vstyle == VertexStyle_Positive
convert_vnum(va, v, vtotal, vobject, positive) ==
  LET id == vertex_array_get_id(va, v)
  IN  IF positive THEN 1 + vtotal + id ELSE 0 - (vobject - id)

\* the most sides of the primitive of these scenes
MaxOutputSides == 2

\* the pools of these scenes: up to MaxVertices vertices added to a new pool
OutputPools ==
  { AddVertices(EmptyVertexArray, cs, 1) :
      cs \in UNION { [1..k -> PoolCoords] : k \in 1..MaxVertices } }

\* hist of an output run: the last call, which of group_set_used and
\* find_duplicates came first, and the vertices output_vertices wrote
OutputHist(op, first, written) ==
  [op |-> op, first |-> first, written |-> written]

OutputInit ==
  \E va \in OutputPools :
    \E sides \in UNION { [1..k -> 0..(va.nvertices - 1)] :
                           k \in 1..MaxOutputSides } :
      /\ varray = va
      /\ groups = <<AddPrimitives(EmptyGroup, <<sides>>, 1, 0)>>
      /\ group_order = <<0>>
      /\ pc = "start"
      /\ bg = 0 /\ back = 0 /\ fg = 0 /\ front = 0
      /\ plane = [x |-> 0, y |-> 1, z |-> 2]
      /\ nsplit = 0 /\ ndel = 0
      /\ del = FALSE /\ split = FALSE
      /\ result = TRUE
      /\ ndebug = TRUE
      /\ hist = OutputHist("init", "none", <<>>)

OutputUnchanged ==
  UNCHANGED <<groups, group_order, bg, back, fg, front, plane, nsplit, ndel,
              del, split, result, ndebug>>

\* group_set_used(&group, &varray)
OutputSetUsed ==
  /\ pc \in {"start", "deduped"}
  /\ varray' = group_set_used(groups[1], varray)
  /\ pc' = IF pc = "start" THEN "marked" ELSE "ready"
  /\ hist' = OutputHist("set_used",
                        IF pc = "start" THEN "set_used" ELSE hist.first,
                        <<>>)
  /\ OutputUnchanged

\* vertex_array_find_duplicates(&varray, false); the client stops if it fails
OutputFindDuplicates ==
  /\ pc \in {"start", "marked"}
  /\ \E sorted \in SortedOrders(varray), ok \in BOOLEAN :
       LET r == vertex_array_find_duplicates(varray, sorted, ok)
       IN  /\ varray' = r.va
           /\ pc' = IF r.n < 0 THEN "failed"
                    ELSE IF pc = "start" THEN "deduped" ELSE "ready"
  /\ hist' = OutputHist("find_duplicates",
                        IF pc = "start" THEN "find_duplicates" ELSE hist.first,
                        <<>>)
  /\ OutputUnchanged

\* vertex_array_renumber(&varray, false)
OutputRenumber ==
  /\ pc = "ready"
  /\ varray' = vertex_array_renumber(varray).va
  /\ pc' = "renumbered"
  /\ hist' = OutputHist("renumber", hist.first, <<>>)
  /\ OutputUnchanged

\* output_vertices(out, vobject, &varray, -1)
OutputVertices ==
  /\ pc = "renumbered"
  /\ pc' = "written"
  /\ hist' = OutputHist("output_vertices", hist.first,
                        output_vertices(varray))
  /\ UNCHANGED varray
  /\ OutputUnchanged

OutputNext ==
  \/ OutputSetUsed
  \/ OutputFindDuplicates
  \/ OutputRenumber
  \/ OutputVertices

OutputSpec == OutputInit /\ [][OutputNext]_vars

\* the vertices the sides of the primitives of the group refer to
Referenced ==
  { primitive_get_side(groups[1].primitives[p], s) :
      p \in 1..groups[1].nprimitives, s \in 0..(MaxOutputSides - 1) }
    \ {-1}

\* get_id(v) is the place, counted from 0, that a vertex with the
\* coordinates of v has among the vertices written
IdIsPlaceWritten(v) ==
  \E k \in 1..Len(hist.written) :
    /\ vertex_array_get_id(varray, v) = k - 1
    /\ vector_equal(vertex_array_get_coords(varray, hist.written[k]),
                    vertex_array_get_coords(varray, v))

\* C30: whichever of group_set_used and find_duplicates is called first,
\* after the renumber that follows every vertex v that a primitive refers to
\* has a get_id(v) equal to the place, counted from 0, among the vertices
\* that output_vertices writes (the marked ones, in the order they were
\* added), of a vertex with the coordinates of v.
IdsMatchOutput ==
  (pc = "written") => \A v \in Referenced : IdIsPlaceWritten(v)

\* the same with group_set_used called first
IdsMatchOutputMarkedFirst ==
  (pc = "written" /\ hist.first = "set_used") =>
    \A v \in Referenced : IdIsPlaceWritten(v)

====
